---------------------------- MODULE Spec2Model ----------------------------
(***************************************************************************)
(* Verification model of the demule discrete-event simulation core:        *)
(*   - NextEventCalendar          (core/simulation/model/calendar.py)      *)
(*   - SimpleCloudletCloudSystem  (core/simulations/cloud/model/system.py) *)
(* Times are integers; an event is a record [id, type, time] whose id      *)
(* stands for the identity of the Python object.                           *)
(***************************************************************************)
EXTENDS Integers, Sequences, FiniteSets, TLC

(***************************************************************************)
(* Bounds of the model.                                                    *)
(***************************************************************************)
\* number of events the environment creates for the calendar
MaxEvents == 2
\* largest occurrence time of an event handed to the calendar
MaxTime == 2

\* number of arrivals submitted to the system
MaxArrivals == 3
\* largest time of an arrival submitted to the system
MaxArrivalTime == 1
\* largest number of servers of the Cloudlet, and largest threshold
MaxServers == 2
\* largest sampled service (or setup plus service) duration
MaxService == 1

\* largest stop time t_stop of a simulation run
MaxStop == 3
\* largest sampled inter-arrival time
MaxInterarrival == 2

\* number of stream(k) and rnd() calls made to a generator
MaxCalls == 3
\* largest initial seed of the small generators
MaxSeed == 2
\* number of streams of the small generators
MaxStreams == 2

\* batch statistics: the values added, each value, and the batches registered
MaxSamples == 2
MaxValue == 1
MaxBatches == 2

\* the run: the transient period and the sample period
MaxTran == 1
MaxSamplePeriod == 2

\* the parameters of the 8-bit generator (table of rndgen.py)
SmallModulus == 127
SmallMultiplier == 14
SmallJumper == 14

\* the default parameters (rndgen.py lines 25-28)
DEFAULT_MODULUS == 2147483647
DEFAULT_MULTIPLIER == 48271
DEFAULT_STREAMS == 256
DEFAULT_JUMPER == 22925

\* the check of rndgen.py (lines 216, 223): the seed expected after CHECKI draws
CHECK == 399268537
CHECKI == 10000

\* the streams of the task generator (taskgen.py)
STREAM_ARRIVAL_TYPE == 100
STREAM_ARRIVAL_TIME == 101

\* float("inf"), the default stop time: larger than every event time
Infinity == MaxTime + 1000

(***************************************************************************)
(* Events and event types (EventType.of(act, sys, tsk)).                    *)
(***************************************************************************)
EventType(act, sys, tsk) == [act |-> act, sys |-> sys, tsk |-> tsk]

ARRIVAL_TASK_1 == EventType("ARRIVAL", "SYSTEM", "TASK_1")
ARRIVAL_TASK_2 == EventType("ARRIVAL", "SYSTEM", "TASK_2")
COMPLETION_CLOUDLET_TASK_1 == EventType("COMPLETION", "CLOUDLET", "TASK_1")
COMPLETION_CLOUDLET_TASK_2 == EventType("COMPLETION", "CLOUDLET", "TASK_2")
COMPLETION_CLOUD_TASK_1 == EventType("COMPLETION", "CLOUD", "TASK_1")
COMPLETION_CLOUD_TASK_2 == EventType("COMPLETION", "CLOUD", "TASK_2")

ArrivalTypes == {ARRIVAL_TASK_1, ARRIVAL_TASK_2}

\* Event(type, time): a new object, told apart from every other by its id
Event(id, type, time) == [id |-> id, type |-> type, time |-> time]

\* Python's None where an event is expected
None == [id |-> 0, type |-> EventType("NONE", "NONE", "NONE"), time |-> 0]

VARIABLES
    \* ---- NextEventCalendar ----
    clock,            \* self._clock
    stop,             \* self._stop
    arrival_types,    \* self._arrival_types
    events,           \* self._events: the entries of the priority queue
    ignore,           \* self._ignore
    blocked,          \* the thread is inside PriorityQueue.get() on an empty queue
    \* ---- environment of the calendar and history of its calls ----
    n_created,        \* the number of events created so far
    lastCall,         \* the last call: its arguments and what it returned
    lastReturned,     \* the event the last successful get_next_event returned
    n_returned,       \* the number of events get_next_event has returned
    lateSchedule      \* an event was enqueued after one had been retrieved

calendarVars == <<clock, stop, arrival_types, events, ignore, blocked,
                  n_created, lastCall, lastReturned, n_returned,
                  lateSchedule>>

VARIABLES
    \* ---- SimpleCloudletCloudSystem ----
    n_1, n_2,                   \* self.n_1, self.n_2
    n_arrival_1, n_arrival_2,   \* self.n_arrival_1, self.n_arrival_2
    n_served_1, n_served_2,     \* self.n_served_1, self.n_served_2
    t_last_event,               \* self.t_last_event
    t_last_completion,          \* self.t_last_completion
    area_service,               \* self.area_service
    cloudlet,                   \* self.cloudlet: [n_1, n_2, n_servers, threshold]
    cloud,                      \* self.cloud: [n_1, n_2]
    \* ---- environment of the system and history of its calls ----
    in_service,       \* the pending completion events of the tasks in service
    n_completions,    \* the number of completion events created so far
    lastSubmit        \* the last call: [op, time, calls, ret]

systemVars == <<n_1, n_2, n_arrival_1, n_arrival_2, n_served_1, n_served_2,
                t_last_event, t_last_completion, area_service, cloudlet, cloud,
                in_service, n_completions, lastSubmit>>

VARIABLES
    \* ---- Simulation ----
    pc,                    \* the position of run: the statement to execute next
    t_stop,                \* self.t_stop
    closed_door,           \* self.closed_door
    event,                 \* the local event of run
    events_to_schedule,    \* the local events_to_schedule of run, a sequence
    events_to_unschedule,  \* the local events_to_unschedule of run, a sequence
    \* ---- SimpleTaskgen ----
    generated              \* self.generated: the arrivals generated, per class

simulationVars == <<pc, t_stop, closed_door, event, events_to_schedule,
                    events_to_unschedule, generated>>

VARIABLES
    \* ---- Simulation: the mode and the sampling management ----
    mode,                           \* self.mode
    t_tran,                         \* self.t_tran
    t_sample,                       \* self.t_sample
    n_batches_wanted,               \* self.batches
    t_last_sample,                  \* self.t_last_sample
    should_discard_transient_data,  \* self.should_discard_transient_data
    \* ---- history of the calls run makes to its metrics ----
    sampled      \* [discards, samples]: the discard_data and sampling calls

samplingVars == <<mode, t_tran, t_sample, n_batches_wanted, t_last_sample,
                  should_discard_transient_data, sampled>>

VARIABLES
    \* ---- MarcianiMultiStream, MarcianiSingleStream ----
    multi,       \* the MarcianiMultiStream objects, by instance
    single,      \* a MarcianiSingleStream object
    \* ---- the callers of the generators and the history of their calls ----
    n_rnd,       \* the rnd() calls of the check of rndgen.py, per generator
    script,      \* the calls made to the first multi-stream generator
    replayed,    \* the number of those calls the second one has received
    outputs,     \* what the calls gave, per instance: the seed and the draw
    lastGen      \* the last call of the caller of one generator alone:
                 \* [n, op, arg, raised, ret]

generatorVars == <<multi, single, n_rnd, script, replayed, outputs, lastGen>>

VARIABLES
    \* ---- SimpleTaskgen, beside self.generated ----
    taskgen      \* the object __init__ gave: [state, var, par, r_tot, p1, t_stop]

taskgenVars == <<taskgen>>

VARIABLES
    \* ---- BatchStatistics ----
    statistics,  \* the object: [acc, n_batches], acc the seven accumulators
    \* ---- history of the calls of its caller ----
    batches      \* [op, registered, added, dropped, closed, pending, sealed]:
                 \* the calls counted, the values added, dropped by a discard
                 \* and closed in a batch, and the values of each batch

statisticsVars == <<statistics, batches>>

vars == <<calendarVars, systemVars, simulationVars, samplingVars, generatorVars,
          taskgenVars, statisticsVars>>

\* the state the calls of one component alone leave unchanged
notCalendar == <<systemVars, simulationVars, samplingVars, generatorVars,
                 taskgenVars, statisticsVars>>
notSystem == <<calendarVars, simulationVars, samplingVars, generatorVars,
               taskgenVars, statisticsVars>>
\* what the steps of run before the sampling leave unchanged
notSimulation == <<samplingVars, generatorVars, taskgenVars, statisticsVars>>
notGenerator == <<calendarVars, systemVars, simulationVars, samplingVars,
                  taskgenVars, statisticsVars>>
notTaskgen == <<calendarVars, systemVars, pc, t_stop, closed_door, event,
                events_to_schedule, events_to_unschedule, samplingVars, single,
                n_rnd, script, replayed, outputs, statisticsVars>>
notStatistics == <<calendarVars, systemVars, simulationVars, samplingVars,
                   generatorVars, taskgenVars>>

(***************************************************************************)
(* NextEventCalendar                                                       *)
(***************************************************************************)
\* the types of the events the environment schedules
CalendarTypes == {ARRIVAL_TASK_1, COMPLETION_CLOUDLET_TASK_2}

\* NextEventCalendar.__init__
InitCalendar ==
    /\ clock = 0
    /\ stop \in {1, Infinity}
    /\ arrival_types \in IF stop = Infinity THEN {{}} ELSE {{}, ArrivalTypes}
    /\ events = {}
    /\ ignore = {}
    /\ blocked = FALSE
    /\ n_created = 0
    /\ lastCall = [op |-> "init", ret |-> None]
    /\ lastReturned = None
    /\ n_returned = 0
    /\ lateSchedule = FALSE

\* a horizon test that lets an arrival at exactly the stop time through
Impossible_StrictlyAfter(ev) == ev.type \in arrival_types /\ ev.time > stop

\* a horizon test applied to every event, whatever its type
Impossible_AnyType(ev) == ev.time >= stop

\* the test of schedule (line 53): the event is an impossible arrival
Impossible(ev) == ev.type \in arrival_types /\ ev.time >= stop

\* NextEventCalendar.schedule(ev), ev a new event
Schedule(ev) ==
    /\ ~blocked
    /\ n_created' = n_created + 1
    /\ IF Impossible(ev)
       THEN /\ lastCall' = [op |-> "schedule", arg |-> ev, ret |-> FALSE]
            /\ UNCHANGED <<events, lateSchedule>>
       ELSE /\ events' = events \cup {ev}
            /\ lateSchedule' = (lateSchedule \/ lastReturned # None)
            /\ lastCall' = [op |-> "schedule", arg |-> ev, ret |-> TRUE]
    /\ UNCHANGED <<clock, stop, arrival_types, ignore, blocked, lastReturned,
                   n_returned>>

\* a cancellation that marks every pending event of the same type and time
Unschedule_ByValue(evs) ==
    /\ ~blocked
    /\ ignore' = ignore \cup evs \cup
                    {e \in events : \E c \in evs : c.type = e.type /\ c.time = e.time}
    /\ lastCall' = [op |-> "unschedule", arg |-> evs, ret |-> None]
    /\ UNCHANGED <<clock, stop, arrival_types, events, blocked, n_created,
                   lastReturned, n_returned, lateSchedule>>

\* NextEventCalendar.unschedule(*evs)
Unschedule(evs) ==
    /\ ~blocked
    /\ ignore' = ignore \cup evs
    /\ lastCall' = [op |-> "unschedule", arg |-> evs, ret |-> None]
    /\ UNCHANGED <<clock, stop, arrival_types, events, blocked, n_created,
                   lastReturned, n_returned, lateSchedule>>

\* a queue that hands out its latest entry first
MinEntries_Latest(q) == {e \in q : \A f \in q : e.time >= f.time}

\* the entries PriorityQueue.get() may return: those of least time
MinEntries(q) == {e \in q : \A f \in q : e.time <= f.time}

\* the sentinel of a get() that never returns
Blocked == [id |-> -1, type |-> EventType("NONE", "NONE", "NONE"), time |-> 0]

\* a retrieval that never consults the ignore set
PopCandidate_NoSkip(q, ign) ==
    IF q = {}
    THEN {[events |-> q, ignore |-> ign, candidate |-> Blocked]}
    ELSE {[events |-> q \ {e}, ignore |-> ign, candidate |-> e] : e \in MinEntries(q)}

\* lines 79-83 of get_next_event: pop, and pop again while the candidate is
\* in the ignore set; get() on the emptied queue blocks
RECURSIVE PopCandidate(_, _)
PopCandidate(q, ign) ==
    IF q = {}
    THEN {[events |-> q, ignore |-> ign, candidate |-> Blocked]}
    ELSE UNION { IF e \in ign
                 THEN PopCandidate(q \ {e}, ign \ {e})
                 ELSE {[events |-> q \ {e}, ignore |-> ign, candidate |-> e]}
               : e \in MinEntries(q) }

\* a clock that is never advanced
SetClock_Forgotten(time) == clock' = clock

\* NextEventCalendar.set_clock(time)
SetClock(time) == clock' = time

\* NextEventCalendar.get_next_event(); skipped counts the entries the call
\* discarded as unscheduled, and discarded holds them
GetNextEvent ==
    /\ ~blocked
    /\ IF events = {}
       THEN /\ lastCall' = [op |-> "get_next_event", ret |-> None, skipped |-> 0]
            /\ UNCHANGED <<clock, events, ignore, blocked, lastReturned, n_returned>>
       ELSE \E o \in PopCandidate(events, ignore) :
            /\ events' = o.events
            /\ ignore' = o.ignore
            /\ IF o.candidate = Blocked
               THEN /\ blocked' = TRUE
                    /\ lastCall' = [op |-> "get_next_event", ret |-> Blocked,
                                    skipped |-> Cardinality(events)]
                    /\ UNCHANGED <<clock, lastReturned, n_returned>>
               ELSE /\ SetClock(o.candidate.time)
                    /\ lastReturned' = o.candidate
                    /\ n_returned' = n_returned + 1
                    /\ lastCall' = [op |-> "get_next_event", ret |-> o.candidate,
                                    skipped |-> Cardinality(events \ o.events) - 1,
                                    discarded |-> (events \ o.events) \ {o.candidate}]
                    /\ UNCHANGED blocked
    /\ UNCHANGED <<stop, arrival_types, n_created, lateSchedule>>

\* the events a caller can hold: the pending ones and the one it was last given
Known == events \cup (IF lastReturned = None THEN {} ELSE {lastReturned})

\* the caller schedules a new event
CallSchedule ==
    /\ \E ty \in CalendarTypes, t \in 0..MaxTime :
          /\ n_created < MaxEvents
          /\ Schedule(Event(n_created + 1, ty, t))
    /\ UNCHANGED notCalendar

\* the caller unschedules no, one or two of the events it holds
CallUnschedule ==
    /\ \E evs \in {{}} \cup {{a, b} : a, b \in Known} : Unschedule(evs)
    /\ UNCHANGED notCalendar

\* the caller asks for the next event
CallGetNextEvent == GetNextEvent /\ UNCHANGED notCalendar

NextCalendar == CallSchedule \/ CallUnschedule \/ CallGetNextEvent

(***************************************************************************)
(* Properties of NextEventCalendar                                         *)
(***************************************************************************)
IsEvent(r) == r.id > 0

\* the last step was a get_next_event call / a schedule call
GotNext == lastCall'.op = "get_next_event"
Scheduled == lastCall'.op = "schedule"

\* C1: when every event is scheduled before the first retrieval, each event
\* get_next_event returns has a time >= the time of the event returned by
\* the previous call.
C1_NonDecreasingOrder ==
    [][(GotNext /\ IsEvent(lastCall'.ret) /\ ~lateSchedule /\ lastReturned # None)
          => lastCall'.ret.time >= lastReturned.time]_vars

C1_Witness ==
    /\ lastCall.op = "get_next_event"
    /\ IsEvent(lastCall.ret)
    /\ ~lateSchedule
    /\ n_returned >= 2
    /\ lastCall.ret.time > 0

\* C2: an event unscheduled while pending is never returned by
\* get_next_event: the call discards it when it reaches the head of the
\* queue and returns the earliest event that is not cancelled, keeping every
\* other non-cancelled event queued.
C2_CancelledNeverReturned ==
    [][GotNext =>
          /\ lastCall'.ret \notin (events \cap ignore)
          /\ IsEvent(lastCall'.ret) =>
                /\ lastCall'.ret \in events \ ignore
                /\ \A f \in events \ ignore : lastCall'.ret.time <= f.time
                /\ \A f \in events \cap ignore :
                      f.time < lastCall'.ret.time => f \notin events'
                /\ (events \ ignore) \ {lastCall'.ret} \subseteq events'
                /\ lastCall'.ret \notin events']_vars

C2_Witness ==
    /\ lastCall.op = "get_next_event"
    /\ IsEvent(lastCall.ret)
    /\ lastCall.skipped >= 1

\* C3: get_next_event returns None, without blocking, whenever the calendar
\* holds no non-cancelled event: when the queue is empty and when every
\* entry still in the queue has been unscheduled.
C3_EmptyResult ==
    [][(GotNext /\ events \subseteq ignore)
          => (lastCall'.ret = None /\ ~blocked')]_vars

\* C4: schedule(ev) with ev.type an arrival type and ev.time >= t_stop
\* returns False and leaves the queue unchanged, and no such event is ever
\* queued or returned by get_next_event.
C4_HorizonRejection ==
    /\ [][(Scheduled /\ lastCall'.arg.type \in arrival_types
                     /\ lastCall'.arg.time >= stop)
             => (lastCall'.ret = FALSE /\ events' = events)]_vars
    /\ [](\A e \in events \cup {lastReturned} :
             ~(e.type \in arrival_types /\ e.time >= stop))

C4_Witness ==
    /\ lastCall.op = "get_next_event"
    /\ IsEvent(lastCall.ret)
    /\ n_created > n_returned + Cardinality(events)
    /\ ignore = {}
    /\ lastCall.skipped = 0
    /\ arrival_types # {}

\* C5: the result of schedule tells exactly whether the event was enqueued:
\* True, with the event added to the queue, for every event that is not an
\* arrival type of the calendar, whatever its time, and for every arrival
\* with time < t_stop; False, with the queue unchanged, only for an arrival
\* with time >= t_stop.
C5_ScheduleResult ==
    [][Scheduled =>
          LET ev == lastCall'.arg IN
          /\ lastCall'.ret \in BOOLEAN
          /\ lastCall'.ret = FALSE <=> (ev.type \in arrival_types /\ ev.time >= stop)
          /\ lastCall'.ret = TRUE => (events' = events \cup {ev} /\ ev \notin events)
          /\ lastCall'.ret = FALSE => events' = events]_vars

C5_Witness ==
    /\ lastCall.op = "schedule"
    /\ lastCall.ret = TRUE
    /\ lastCall.arg.type \notin arrival_types
    /\ arrival_types # {}
    /\ lastCall.arg.time >= stop
    /\ lastCall.arg \in events

\* C6: after a get_next_event call that returns an event the clock equals
\* that event's time, also when cancelled events were skipped on the way; a
\* call that returns no event leaves the clock unchanged.
C6_ClockFollowsReturned ==
    [][GotNext =>
          IF IsEvent(lastCall'.ret)
          THEN clock' = lastCall'.ret.time
          ELSE clock' = clock]_vars

C6_Witness ==
    /\ lastCall.op = "get_next_event"
    /\ IsEvent(lastCall.ret)
    /\ lastCall.skipped >= 1
    /\ clock = lastCall.ret.time
    /\ clock > 0

\* C17: events with equal time are returned by get_next_event in the order
\* in which they were scheduled (stable FIFO among equal times), so that
\* the order of retrieval is fixed by the order of scheduling: an event is
\* never returned while an event of the same time scheduled before it is
\* still pending.
C17_StableTieBreak ==
    [][(GotNext /\ IsEvent(lastCall'.ret)) =>
          \A f \in events \ ignore :
             f.time = lastCall'.ret.time => f.id >= lastCall'.ret.id]_vars

\* two distinct events of the same type and time
Twins(e1, e2) == e1 # e2 /\ e1.type = e2.type /\ e1.time = e2.time

\* C18: cancellation distinguishes events by identity, not by value: when
\* two distinct pending events have the same type and time and exactly one
\* of them is unscheduled, the other one is not marked as cancelled, stays
\* pending until get_next_event returns it, is returned as soon as no
\* other non-cancelled event is due before it, and leaves the queue when it
\* is returned; the unscheduled one is never returned.
C18_CancellationByIdentity ==
    [][/\ lastCall'.op = "unschedule" =>
             \A e1 \in lastCall'.arg, e2 \in events \ (ignore \cup lastCall'.arg) :
                Twins(e1, e2) => (e1 \in ignore' /\ e2 \in events' \ ignore')
       /\ \A e1 \in events \cap ignore, e2 \in events \ ignore :
          Twins(e1, e2) =>
             /\ e2 \in events' \/ (GotNext /\ lastCall'.ret = e2)
             /\ GotNext =>
                   /\ lastCall'.ret # e1
                   /\ lastCall'.ret = e2 => e2 \notin events'
                   /\ (\A f \in events \ ignore : f # e2 => f.time > e2.time)
                         => lastCall'.ret = e2]_vars

\* the event returned is the twin of an unscheduled event the call discarded
C18_Witness ==
    /\ lastCall.op = "get_next_event"
    /\ IsEvent(lastCall.ret)
    /\ \E d \in lastCall.discarded : Twins(d, lastCall.ret)
    /\ lastCall.ret \notin events

(***************************************************************************)
(* SimpleCloudletCloudSystem                                               *)
(***************************************************************************)
\* SimpleCloudletCloudSystem.__init__
InitSystem ==
    /\ n_1 = 0 /\ n_2 = 0
    /\ n_arrival_1 = 0 /\ n_arrival_2 = 0
    /\ n_served_1 = 0 /\ n_served_2 = 0
    /\ t_last_event = 0
    /\ t_last_completion = 0
    /\ area_service = 0
    /\ cloudlet \in [n_1 : {0}, n_2 : {0}, n_servers : 1..MaxServers,
                     threshold : 1..MaxServers]
    /\ cloud = [n_1 |-> 0, n_2 |-> 0]
    /\ in_service = {}
    /\ n_completions = 0
    /\ lastSubmit = [op |-> "init", time |-> 0, calls |-> <<>>, ret |-> <<>>]

\* ---- the Cloudlet and the Cloud, as the system uses them ----
\* SimpleCloudLet.submit_arrival_task_1/2: one more task of the class in service
CloudletSubmitArrival(c, tsk) ==
    IF tsk = "TASK_1" THEN [c EXCEPT !.n_1 = @ + 1] ELSE [c EXCEPT !.n_2 = @ + 1]

\* SimpleCloudLet.submit_completion_task_1/2: one task of the class fewer
CloudletSubmitCompletion(c, tsk) ==
    IF tsk = "TASK_1" THEN [c EXCEPT !.n_1 = @ - 1] ELSE [c EXCEPT !.n_2 = @ - 1]

\* SimpleCloudLet.submit_removal_task_2: one task of type 2 leaves the Cloudlet
CloudletSubmitRemovalTask2(c) == [c EXCEPT !.n_2 = @ - 1]

\* the completions submit_removal_task_2 may return: that of any task of
\* type 2 in service in the Cloudlet
Removable == {c \in in_service : c.type = COMPLETION_CLOUDLET_TASK_2}

\* SimpleCloud.submit_arrival_task_1/2 and submit_restart_task_2
CloudSubmitArrival(c, tsk) ==
    IF tsk = "TASK_1" THEN [c EXCEPT !.n_1 = @ + 1] ELSE [c EXCEPT !.n_2 = @ + 1]

\* SimpleCloud.submit_completion_task_1/2
CloudSubmitCompletion(c, tsk) ==
    IF tsk = "TASK_1" THEN [c EXCEPT !.n_1 = @ - 1] ELSE [c EXCEPT !.n_2 = @ - 1]

\* the sampled service durations
Durations == 0..MaxService

\* ---- submit_arrival_task_1 ----
\* a routing that tests the threshold before the type-1 slots
Route1_ThresholdFirst(c) ==
    IF c.n_1 + c.n_2 < c.threshold THEN "CLOUDLET"
    ELSE IF c.n_1 = c.n_servers THEN "CLOUD"
    ELSE IF c.n_2 > 0 THEN "PREEMPT"
    ELSE "CLOUDLET_ANYWAY"

\* a routing that never interrupts a task of type 2
Route1_NoPreemption(c) ==
    IF c.n_1 = c.n_servers THEN "CLOUD"
    ELSE IF c.n_1 + c.n_2 < c.threshold THEN "CLOUDLET"
    ELSE "CLOUDLET_ANYWAY"

\* a routing that does not look for a free server before the Cloudlet
Route1_NoServerTest(c) ==
    IF c.n_1 + c.n_2 < c.threshold THEN "CLOUDLET"
    ELSE IF c.n_2 > 0 THEN "PREEMPT"
    ELSE "CLOUDLET_ANYWAY"

\* the branch submit_arrival_task_1 takes (lines 84, 94, 104, 118)
Route1(c) ==
    IF c.n_1 = c.n_servers THEN "CLOUD"
    ELSE IF c.n_1 + c.n_2 < c.threshold THEN "CLOUDLET"
    ELSE IF c.n_2 > 0 THEN "PREEMPT"
    ELSE "CLOUDLET_ANYWAY"

\* a service area that grows by the time since the start, not since the last event
UpdateMeta_SinceStart(n, event_time) ==
    /\ area_service' = IF n > 0 THEN area_service + event_time ELSE area_service
    /\ t_last_event' = event_time

\* "Update meta" of every submit_*: the service area and the last event time,
\* n being n_1 + n_2 as already updated by the call
UpdateMeta(n, event_time) ==
    /\ area_service' = IF n > 0
                       THEN area_service + (event_time - t_last_event)
                       ELSE area_service
    /\ t_last_event' = event_time

\* "Update State" and "Update Statistics" of submit_arrival_task_1
CountArrivalTask1 ==
    /\ n_1' = n_1 + 1
    /\ n_arrival_1' = n_arrival_1 + 1

\* SimpleCloudletCloudSystem.submit_arrival_task_1(event_time)
SubmitArrivalTask1(event_time) ==
    /\ CountArrivalTask1
    /\ UpdateMeta(n_1 + 1 + n_2, event_time)
    /\ \E d1, d2 \in Durations :
       LET completion_event ==
               Event(n_completions + 1,
                     IF Route1(cloudlet) = "CLOUD" THEN COMPLETION_CLOUD_TASK_1
                                                   ELSE COMPLETION_CLOUDLET_TASK_1,
                     event_time + d1)
           completion_restart_event ==
               Event(n_completions + 2, COMPLETION_CLOUD_TASK_2, event_time + d2)
       IN
       CASE Route1(cloudlet) = "CLOUD" ->
              /\ d2 = 0
              /\ cloud' = CloudSubmitArrival(cloud, "TASK_1")
              /\ cloudlet' = cloudlet
              /\ in_service' = in_service \cup {completion_event}
              /\ n_completions' = n_completions + 1
              /\ lastSubmit' = [op |-> "submit_arrival_task_1", time |-> event_time,
                                calls |-> <<"cloud.submit_arrival_task_1">>,
                                ret |-> <<completion_event, None, None>>]
         [] Route1(cloudlet) \in {"CLOUDLET", "CLOUDLET_ANYWAY"} ->
              /\ d2 = 0
              /\ cloudlet' = CloudletSubmitArrival(cloudlet, "TASK_1")
              /\ cloud' = cloud
              /\ in_service' = in_service \cup {completion_event}
              /\ n_completions' = n_completions + 1
              /\ lastSubmit' = [op |-> "submit_arrival_task_1", time |-> event_time,
                                calls |-> <<"cloudlet.submit_arrival_task_1">>,
                                ret |-> <<completion_event, None, None>>]
         [] Route1(cloudlet) = "PREEMPT" ->
              \E completion_to_ignore \in Removable :
              /\ cloudlet' = CloudletSubmitArrival(
                                 CloudletSubmitRemovalTask2(cloudlet), "TASK_1")
              /\ cloud' = CloudSubmitArrival(cloud, "TASK_2")
              /\ in_service' = (in_service \ {completion_to_ignore})
                                  \cup {completion_event, completion_restart_event}
              /\ n_completions' = n_completions + 2
              /\ lastSubmit' = [op |-> "submit_arrival_task_1", time |-> event_time,
                                calls |-> <<"cloudlet.submit_removal_task_2",
                                            "cloud.submit_restart_task_2",
                                            "cloudlet.submit_arrival_task_1">>,
                                ret |-> <<completion_event, completion_restart_event,
                                          completion_to_ignore>>]
    /\ UNCHANGED <<n_2, n_arrival_2, n_served_1, n_served_2, t_last_completion>>

\* ---- submit_arrival_task_2 ----
\* a routing that lets a task of type 2 in while a server is free
Route2_FreeServer(c) ==
    IF c.n_1 + c.n_2 >= c.n_servers THEN "CLOUD" ELSE "CLOUDLET"

\* a routing that lets a task of type 2 in at the threshold
Route2_AboveThreshold(c) ==
    IF c.n_1 + c.n_2 > c.threshold THEN "CLOUD" ELSE "CLOUDLET"

\* the branch submit_arrival_task_2 takes (line 146)
Route2(c) ==
    IF c.n_1 + c.n_2 >= c.threshold THEN "CLOUD" ELSE "CLOUDLET"

\* an arrival that is counted in the statistics and not in the state
CountArrivalTask2_StatisticsOnly ==
    /\ n_2' = n_2
    /\ n_arrival_2' = n_arrival_2 + 1

\* "Update State" and "Update Statistics" of submit_arrival_task_2
CountArrivalTask2 ==
    /\ n_2' = n_2 + 1
    /\ n_arrival_2' = n_arrival_2 + 1

\* SimpleCloudletCloudSystem.submit_arrival_task_2(event_time)
SubmitArrivalTask2(event_time) ==
    /\ CountArrivalTask2
    /\ UpdateMeta(n_1 + n_2 + 1, event_time)
    /\ \E d \in Durations :
       IF Route2(cloudlet) = "CLOUD"
       THEN LET completion_event ==
                    Event(n_completions + 1, COMPLETION_CLOUD_TASK_2, event_time + d)
            IN /\ cloud' = CloudSubmitArrival(cloud, "TASK_2")
               /\ cloudlet' = cloudlet
               /\ in_service' = in_service \cup {completion_event}
               /\ lastSubmit' = [op |-> "submit_arrival_task_2", time |-> event_time,
                                 calls |-> <<"cloud.submit_arrival_task_2">>,
                                 ret |-> <<completion_event>>]
       ELSE LET completion_event ==
                    Event(n_completions + 1, COMPLETION_CLOUDLET_TASK_2, event_time + d)
            IN /\ cloudlet' = CloudletSubmitArrival(cloudlet, "TASK_2")
               /\ cloud' = cloud
               /\ in_service' = in_service \cup {completion_event}
               /\ lastSubmit' = [op |-> "submit_arrival_task_2", time |-> event_time,
                                 calls |-> <<"cloudlet.submit_arrival_task_2">>,
                                 ret |-> <<completion_event>>]
    /\ n_completions' = n_completions + 1
    /\ UNCHANGED <<n_1, n_arrival_1, n_served_1, n_served_2, t_last_completion>>

\* ---- submit_completion_* ----
\* SimpleCloudletCloudSystem.submit_completion_cloudlet_task_1(event_time)
SubmitCompletionCloudletTask1(event_time) ==
    /\ n_1' = n_1 - 1
    /\ n_served_1' = n_served_1 + 1
    /\ UpdateMeta(n_1 - 1 + n_2, event_time)
    /\ t_last_completion' = event_time
    /\ cloudlet' = CloudletSubmitCompletion(cloudlet, "TASK_1")
    /\ lastSubmit' = [op |-> "submit_completion_cloudlet_task_1", time |-> event_time,
                      calls |-> <<"cloudlet.submit_completion_task_1">>, ret |-> <<>>]
    /\ UNCHANGED <<n_2, n_arrival_1, n_arrival_2, n_served_2, cloud>>

\* SimpleCloudletCloudSystem.submit_completion_cloudlet_task_2(event_time)
SubmitCompletionCloudletTask2(event_time) ==
    /\ n_2' = n_2 - 1
    /\ n_served_2' = n_served_2 + 1
    /\ UpdateMeta(n_1 + n_2 - 1, event_time)
    /\ t_last_completion' = event_time
    /\ cloudlet' = CloudletSubmitCompletion(cloudlet, "TASK_2")
    /\ lastSubmit' = [op |-> "submit_completion_cloudlet_task_2", time |-> event_time,
                      calls |-> <<"cloudlet.submit_completion_task_2">>, ret |-> <<>>]
    /\ UNCHANGED <<n_1, n_arrival_1, n_arrival_2, n_served_1, cloud>>

\* SimpleCloudletCloudSystem.submit_completion_cloud_task_1(event_time)
SubmitCompletionCloudTask1(event_time) ==
    /\ n_1' = n_1 - 1
    /\ n_served_1' = n_served_1 + 1
    /\ UpdateMeta(n_1 - 1 + n_2, event_time)
    /\ t_last_completion' = event_time
    /\ cloud' = CloudSubmitCompletion(cloud, "TASK_1")
    /\ lastSubmit' = [op |-> "submit_completion_cloud_task_1", time |-> event_time,
                      calls |-> <<"cloud.submit_completion_task_1">>, ret |-> <<>>]
    /\ UNCHANGED <<n_2, n_arrival_1, n_arrival_2, n_served_2, cloudlet>>

\* a completion in the Cloud of a task of type 2 that is counted for type 1
SubmitCompletionCloudTask2_WrongClass(event_time) ==
    /\ n_1' = n_1 - 1
    /\ n_served_1' = n_served_1 + 1
    /\ UpdateMeta(n_1 - 1 + n_2, event_time)
    /\ t_last_completion' = event_time
    /\ cloud' = CloudSubmitCompletion(cloud, "TASK_2")
    /\ lastSubmit' = [op |-> "submit_completion_cloud_task_2", time |-> event_time,
                      calls |-> <<"cloud.submit_completion_task_2">>, ret |-> <<>>]
    /\ UNCHANGED <<n_2, n_arrival_1, n_arrival_2, n_served_2, cloudlet>>

\* SimpleCloudletCloudSystem.submit_completion_cloud_task_2(event_time)
SubmitCompletionCloudTask2(event_time) ==
    /\ n_2' = n_2 - 1
    /\ n_served_2' = n_served_2 + 1
    /\ UpdateMeta(n_1 + n_2 - 1, event_time)
    /\ t_last_completion' = event_time
    /\ cloud' = CloudSubmitCompletion(cloud, "TASK_2")
    /\ lastSubmit' = [op |-> "submit_completion_cloud_task_2", time |-> event_time,
                      calls |-> <<"cloud.submit_completion_task_2">>, ret |-> <<>>]
    /\ UNCHANGED <<n_1, n_arrival_1, n_arrival_2, n_served_1, cloudlet>>

\* ---- the caller: events reach the system in the order of their times ----
\* an arrival may be submitted at a time no later than the pending completions
ArrivalTimes ==
    {t \in t_last_event..MaxArrivalTime : \A c \in in_service : t <= c.time}

\* the completion of a task in service, due next
Due(c) == c \in in_service /\ \A f \in in_service : c.time <= f.time

\* the completion c of a task in service is submitted, at its time
Complete(c, ty) ==
    /\ Due(c)
    /\ c.type = ty
    /\ in_service' = in_service \ {c}
    /\ UNCHANGED n_completions

\* an arrival of a task of type 1 / type 2 is submitted
ArriveTask1 ==
    /\ \E t \in ArrivalTimes :
          /\ n_arrival_1 + n_arrival_2 < MaxArrivals
          /\ SubmitArrivalTask1(t)
    /\ UNCHANGED notSystem

ArriveTask2 ==
    /\ \E t \in ArrivalTimes :
          /\ n_arrival_1 + n_arrival_2 < MaxArrivals
          /\ SubmitArrivalTask2(t)
    /\ UNCHANGED notSystem

\* the completion due next is submitted to the method of its type
CompleteCloudletTask1 ==
    /\ \E c \in in_service :
          /\ Complete(c, COMPLETION_CLOUDLET_TASK_1)
          /\ SubmitCompletionCloudletTask1(c.time)
    /\ UNCHANGED notSystem

CompleteCloudletTask2 ==
    /\ \E c \in in_service :
          /\ Complete(c, COMPLETION_CLOUDLET_TASK_2)
          /\ SubmitCompletionCloudletTask2(c.time)
    /\ UNCHANGED notSystem

CompleteCloudTask1 ==
    /\ \E c \in in_service :
          /\ Complete(c, COMPLETION_CLOUD_TASK_1)
          /\ SubmitCompletionCloudTask1(c.time)
    /\ UNCHANGED notSystem

CompleteCloudTask2 ==
    /\ \E c \in in_service :
          /\ Complete(c, COMPLETION_CLOUD_TASK_2)
          /\ SubmitCompletionCloudTask2(c.time)
    /\ UNCHANGED notSystem

NextSystem ==
    \/ ArriveTask1 \/ ArriveTask2
    \/ CompleteCloudletTask1 \/ CompleteCloudletTask2
    \/ CompleteCloudTask1 \/ CompleteCloudTask2

\* ---- get_throughput and get_utilization ----
\* what a division by zero raises
ZeroDivisionError == "ZeroDivisionError"

\* a throughput that is zero as long as no completion has a positive time
GetThroughput_Guarded ==
    IF t_last_completion = 0 THEN <<0, 1>>
    ELSE <<n_served_1 + n_served_2, t_last_completion>>

\* SimpleCloudletCloudSystem.get_throughput(): the quotient as the pair of
\* its numerator and its denominator, or the error the division raises
GetThroughput ==
    IF t_last_completion = 0 THEN ZeroDivisionError
    ELSE <<n_served_1 + n_served_2, t_last_completion>>

\* SimpleCloudletCloudSystem.get_utilization()
GetUtilization ==
    IF t_last_event = 0 THEN ZeroDivisionError
    ELSE <<area_service, t_last_event>>

\* the caller reads the throughput / the utilization; the call changes no
\* field of the system
ReadThroughput ==
    /\ lastSubmit' = [op |-> "get_throughput", time |-> lastSubmit.time,
                      calls |-> <<>>, ret |-> <<GetThroughput>>]
    /\ UNCHANGED <<n_1, n_2, n_arrival_1, n_arrival_2, n_served_1, n_served_2,
                   t_last_event, t_last_completion, area_service, cloudlet,
                   cloud, in_service, n_completions>>
    /\ UNCHANGED notSystem

ReadUtilization ==
    /\ lastSubmit' = [op |-> "get_utilization", time |-> lastSubmit.time,
                      calls |-> <<>>, ret |-> <<GetUtilization>>]
    /\ UNCHANGED <<n_1, n_2, n_arrival_1, n_arrival_2, n_served_1, n_served_2,
                   t_last_event, t_last_completion, area_service, cloudlet,
                   cloud, in_service, n_completions>>
    /\ UNCHANGED notSystem

NextSystemRead ==
    \/ NextSystem
    \/ ReadThroughput \/ ReadUtilization

\* ---- a caller that also submits completions of tasks that are not in service ----
\* lines 173-183 (and the same lines of the three other submit_completion_*)
\* when the call to the tier that follows them raises: the counters of the
\* system are already updated, those of the tiers are not
CompletionRaised(op, tsk, event_time) ==
    /\ IF tsk = "TASK_1"
       THEN /\ n_1' = n_1 - 1
            /\ n_served_1' = n_served_1 + 1
            /\ UNCHANGED <<n_2, n_served_2>>
       ELSE /\ n_2' = n_2 - 1
            /\ n_served_2' = n_served_2 + 1
            /\ UNCHANGED <<n_1, n_served_1>>
    /\ UpdateMeta(n_1 + n_2 - 1, event_time)
    /\ t_last_completion' = event_time
    /\ lastSubmit' = [op |-> op, time |-> event_time, calls |-> <<>>,
                      ret |-> <<>>, raised |-> TRUE]
    /\ UNCHANGED <<n_arrival_1, n_arrival_2, cloudlet, cloud>>

\* every completion submitted so far was that of a task in service
AllMatched ==
    n_served_1 + n_served_2 + Cardinality(in_service) = n_arrival_1 + n_arrival_2

\* a completion in the Cloudlet of a task of type 1 is submitted although no
\* task of type 1 is in service; the Cloudlet may refuse it or count it
MiscompleteCloudletTask1 ==
    /\ AllMatched
    /\ n_1 = 0
    /\ \E t \in ArrivalTimes :
          \/ SubmitCompletionCloudletTask1(t)
          \/ CompletionRaised("submit_completion_cloudlet_task_1", "TASK_1", t)
    /\ UNCHANGED <<in_service, n_completions>>
    /\ UNCHANGED notSystem

\* a completion in the Cloud of a task of type 2 is submitted although no
\* task of type 2 is in service; the Cloud may refuse it or count it
MiscompleteCloudTask2 ==
    /\ AllMatched
    /\ n_2 = 0
    /\ \E t \in ArrivalTimes :
          \/ SubmitCompletionCloudTask2(t)
          \/ CompletionRaised("submit_completion_cloud_task_2", "TASK_2", t)
    /\ UNCHANGED <<in_service, n_completions>>
    /\ UNCHANGED notSystem

NextSystemAnyCaller ==
    \/ ArriveTask1 \/ ArriveTask2
    \/ CompleteCloudletTask1 \/ CompleteCloudletTask2
    \/ CompleteCloudTask1 \/ CompleteCloudTask2
    \/ MiscompleteCloudletTask1 \/ MiscompleteCloudTask2

(***************************************************************************)
(* Properties of SimpleCloudletCloudSystem                                 *)
(***************************************************************************)
\* the completions pending for the tasks of a class
InServiceOf(tsk) == {c \in in_service : c.type.tsk = tsk}

\* the last step was a submit_arrival_task_1 / submit_arrival_task_2 call
Arrived1 == lastSubmit'.op = "submit_arrival_task_1"
Arrived2 == lastSubmit'.op = "submit_arrival_task_2"

\* C7: while every completion submitted is that of a task in service, the
\* in-service count of each class (n_1, n_2, which is the Cloudlet plus the
\* Cloud occupancy of the class and the number of its tasks in service)
\* equals the arrivals of the class minus its completions, and no occupancy
\* counter is negative.
C7_OccupancyConservation ==
    /\ n_1 = n_arrival_1 - n_served_1
    /\ n_2 = n_arrival_2 - n_served_2
    /\ n_1 = cloudlet.n_1 + cloud.n_1
    /\ n_2 = cloudlet.n_2 + cloud.n_2
    /\ n_1 = Cardinality(InServiceOf("TASK_1"))
    /\ n_2 = Cardinality(InServiceOf("TASK_2"))
    /\ n_1 >= 0 /\ n_2 >= 0
    /\ cloudlet.n_1 >= 0 /\ cloudlet.n_2 >= 0
    /\ cloud.n_1 >= 0 /\ cloud.n_2 >= 0

\* a task of type 2 was interrupted and restarted, and a task of type 2
\* has completed since
C7_Witness ==
    /\ n_completions > n_arrival_1 + n_arrival_2
    /\ n_served_2 >= 1
    /\ cloud.n_2 >= 1
    /\ lastSubmit.op = "submit_completion_cloudlet_task_2"

\* the occupancy in which C8 expects a task of type 2 to be interrupted
PreemptCase ==
    /\ cloudlet.n_1 < cloudlet.n_servers
    /\ cloudlet.n_1 + cloudlet.n_2 >= cloudlet.threshold
    /\ cloudlet.n_2 >= 1

\* C8: a type-1 arrival that finds n1_cloudlet < n_servers, the Cloudlet
\* occupancy >= threshold and n2_cloudlet >= 1 cancels exactly one pending
\* Cloudlet type-2 completion (third result), creates exactly one new Cloud
\* completion of type 2 (second result) and exactly one new Cloudlet
\* completion of type 1 (first result); in every other case the second and
\* third results are None.
C8_Preemption ==
    [][Arrived1 =>
          LET r == lastSubmit'.ret IN
          /\ Len(r) = 3
          /\ IF PreemptCase
             THEN /\ r[3] \in in_service
                  /\ r[3].type = COMPLETION_CLOUDLET_TASK_2
                  /\ r[2] \notin in_service
                  /\ r[2].type = COMPLETION_CLOUD_TASK_2
                  /\ r[1] \notin in_service
                  /\ r[1].type = COMPLETION_CLOUDLET_TASK_1
                  /\ r[1] # r[2]
                  /\ in_service' = (in_service \ {r[3]}) \cup {r[1], r[2]}
                  /\ lastSubmit'.calls = <<"cloudlet.submit_removal_task_2",
                                           "cloud.submit_restart_task_2",
                                           "cloudlet.submit_arrival_task_1">>
                  /\ cloudlet'.n_2 = cloudlet.n_2 - 1
                  /\ cloud'.n_2 = cloud.n_2 + 1
                  /\ cloudlet'.n_1 = cloudlet.n_1 + 1
             ELSE /\ r[2] = None
                  /\ r[3] = None
                  /\ in_service' = in_service \cup {r[1]}
                  /\ Len(lastSubmit'.calls) = 1]_vars

C8_Witness ==
    /\ lastSubmit.op = "submit_arrival_task_1"
    /\ lastSubmit.ret[3] # None
    /\ lastSubmit.ret[2] \in in_service
    /\ Cardinality(in_service) >= 3

\* C9: submit_arrival_task_1 decides by these tests, in this order:
\* n1_cloudlet = n_servers -> Cloud; else occupancy < threshold -> Cloudlet;
\* else n2_cloudlet > 0 -> interrupt a task of type 2 and admit to the
\* Cloudlet; else admit to the Cloudlet anyway.  The task goes to the Cloud
\* if and only if n1_cloudlet = n_servers on arrival.
C9_RoutingTask1 ==
    [][Arrived1 =>
          LET c == cloudlet
              calls == lastSubmit'.calls
              toCloud == <<"cloud.submit_arrival_task_1">>
              toCloudlet == <<"cloudlet.submit_arrival_task_1">>
              preempt == <<"cloudlet.submit_removal_task_2",
                           "cloud.submit_restart_task_2",
                           "cloudlet.submit_arrival_task_1">>
          IN
          /\ calls = IF c.n_1 = c.n_servers THEN toCloud
                     ELSE IF c.n_1 + c.n_2 < c.threshold THEN toCloudlet
                     ELSE IF c.n_2 > 0 THEN preempt
                     ELSE toCloudlet
          /\ (calls = toCloud) <=> (c.n_1 = c.n_servers)
          /\ (lastSubmit'.ret[1].type.sys = "CLOUD") <=> (c.n_1 = c.n_servers)
          /\ (cloud'.n_1 = cloud.n_1 + 1) <=> (c.n_1 = c.n_servers)
          /\ (cloudlet'.n_1 = c.n_1 + 1) <=> (c.n_1 # c.n_servers)]_vars

\* a task of type 1 was admitted to a Cloudlet at its threshold that held
\* no task of type 2
C9_Witness ==
    /\ lastSubmit.op = "submit_arrival_task_1"
    /\ lastSubmit.calls = <<"cloudlet.submit_arrival_task_1">>
    /\ cloudlet.n_1 + cloudlet.n_2 > cloudlet.threshold
    /\ cloudlet.n_2 = 0

\* C10: submit_arrival_task_2 routes the task to the Cloud if and only if
\* n1_cloudlet + n2_cloudlet >= threshold on arrival, and to the Cloudlet
\* otherwise; it interrupts no task and returns exactly one completion
\* event.
C10_RoutingTask2 ==
    [][Arrived2 =>
          LET c == cloudlet
              r == lastSubmit'.ret
              toCloud == c.n_1 + c.n_2 >= c.threshold
          IN
          /\ lastSubmit'.calls = IF toCloud THEN <<"cloud.submit_arrival_task_2">>
                                            ELSE <<"cloudlet.submit_arrival_task_2">>
          /\ Len(r) = 1
          /\ r[1] \notin in_service
          /\ in_service' = in_service \cup {r[1]}
          /\ r[1].type = IF toCloud THEN COMPLETION_CLOUD_TASK_2
                                    ELSE COMPLETION_CLOUDLET_TASK_2
          /\ cloud' = IF toCloud THEN [cloud EXCEPT !.n_2 = @ + 1] ELSE cloud
          /\ cloudlet' = IF toCloud THEN c ELSE [c EXCEPT !.n_2 = @ + 1]]_vars

\* a task of type 2 was sent to the Cloud from a Cloudlet exactly at its
\* threshold, and another one was admitted before
C10_Witness ==
    /\ lastSubmit.op = "submit_arrival_task_2"
    /\ lastSubmit.calls = <<"cloud.submit_arrival_task_2">>
    /\ cloudlet.n_1 + cloudlet.n_2 = cloudlet.threshold
    /\ cloudlet.n_2 >= 1

\* the last step was the call submit_completion_<sys>_<tsk>
Completed(sys, tsk) ==
    lastSubmit'.op = IF sys = "CLOUDLET"
                     THEN IF tsk = "TASK_1" THEN "submit_completion_cloudlet_task_1"
                                            ELSE "submit_completion_cloudlet_task_2"
                     ELSE IF tsk = "TASK_1" THEN "submit_completion_cloud_task_1"
                                            ELSE "submit_completion_cloud_task_2"

\* the counters of a tier, of the whole system and of the served tasks, per class
TierCount(r, tsk) == IF tsk = "TASK_1" THEN r.n_1 ELSE r.n_2
SystemCount(tsk) == IF tsk = "TASK_1" THEN n_1 ELSE n_2
ServedCount(tsk) == IF tsk = "TASK_1" THEN n_served_1 ELSE n_served_2
OtherClass(tsk) == IF tsk = "TASK_1" THEN "TASK_2" ELSE "TASK_1"

\* the effect C11 expects of submit_completion_<sys>_<tsk>
CompletionEffect(sys, tsk) ==
    LET own == IF sys = "CLOUDLET" THEN cloudlet ELSE cloud
        own_after == IF sys = "CLOUDLET" THEN cloudlet' ELSE cloud'
        oth == OtherClass(tsk)
    IN
    /\ TierCount(own_after, tsk) = TierCount(own, tsk) - 1
    /\ SystemCount(tsk)' = SystemCount(tsk) - 1
    /\ ServedCount(tsk)' = ServedCount(tsk) + 1
    /\ TierCount(own_after, oth) = TierCount(own, oth)
    /\ SystemCount(oth)' = SystemCount(oth)
    /\ ServedCount(oth)' = ServedCount(oth)
    /\ IF sys = "CLOUDLET" THEN cloud' = cloud ELSE cloudlet' = cloudlet
    /\ cloudlet'.n_servers = cloudlet.n_servers
    /\ cloudlet'.threshold = cloudlet.threshold
    /\ n_arrival_1' = n_arrival_1
    /\ n_arrival_2' = n_arrival_2
    /\ lastSubmit'.ret = <<>>
    /\ in_service' \subseteq in_service

\* C11: each of the four submit_completion_* operations decrements by one
\* only the occupancy counter of its own tier and class and the system total
\* of that class, increments only the served count of that class, leaves
\* the counters of the other class and of the other tier and the arrival
\* counts unchanged, and returns no event to schedule or cancel.
C11_CompletionFrame ==
    [][\A sys \in {"CLOUDLET", "CLOUD"}, tsk \in {"TASK_1", "TASK_2"} :
          Completed(sys, tsk) => CompletionEffect(sys, tsk)]_vars

\* a task of type 2 completed in the Cloud while tasks of both classes were
\* in service in the Cloudlet
C11_Witness ==
    /\ lastSubmit.op = "submit_completion_cloud_task_2"
    /\ cloudlet.n_1 >= 1
    /\ cloudlet.n_2 >= 1
    /\ n_served_2 = 1
    /\ n_served_1 = 0

\* C12: a completion submitted for a class whose in-service counter is
\* already zero fails instead of leaving a negative occupancy counter: n_1
\* and n_2 are never negative, whatever the caller submits.
C12_NoNegativeOccupancy == n_1 >= 0 /\ n_2 >= 0

\* C13: area_service is the summed length of exactly the inter-event
\* intervals during which the total occupancy n_1 + n_2, as it stood
\* between the two events, was > 0: every submitted event adds the time
\* since the previous event if the system held a task before the event, and
\* nothing if it was empty (an arrival into an empty system adds nothing,
\* the completion that empties the system adds its interval).
C13_BusyArea ==
    [][area_service' - area_service =
          IF n_1 + n_2 > 0 THEN t_last_event' - t_last_event ELSE 0]_vars

\* C14: after any sequence of events submitted with non-decreasing times,
\* 0 <= area_service <= t_last_event, so that the utilization
\* area_service / t_last_event lies in [0, 1] whenever t_last_event > 0,
\* and the served counts n_served_1 and n_served_2 are non-negative
\* integers.
C14_UtilizationRange ==
    /\ 0 <= area_service
    /\ area_service <= t_last_event
    /\ n_served_1 \in Nat
    /\ n_served_2 \in Nat

\* the system was busy for a part of the time elapsed and idle for the rest
C14_Witness ==
    /\ area_service > 0
    /\ area_service < t_last_event
    /\ n_served_1 + n_served_2 >= 1

\* the tasks in service in the Cloudlet
CloudletOccupancy == cloudlet.n_1 + cloudlet.n_2

\* C37: for every configuration with threshold <= n_servers, after any
\* sequence of arrivals and completions from the empty state the Cloudlet
\* holds at most n_servers tasks of type 1 and at most n_servers tasks in
\* all, although the total occupancy may exceed the threshold.
C37_CloudletWithinServers ==
    cloudlet.threshold <= cloudlet.n_servers =>
       /\ cloudlet.n_1 <= cloudlet.n_servers
       /\ CloudletOccupancy <= cloudlet.n_servers

\* every server of the Cloudlet serves a task of type 1, above the
\* threshold, and a further task of type 1 went to the Cloud
C37_Witness ==
    /\ cloudlet.threshold < cloudlet.n_servers
    /\ cloudlet.n_1 = cloudlet.n_servers
    /\ CloudletOccupancy > cloudlet.threshold
    /\ cloud.n_1 = 1
    /\ lastSubmit.op = "submit_arrival_task_1"

\* C38: whenever the Cloudlet holds a task of type 2 its total occupancy
\* is <= threshold: the occupancy rises above the threshold only through
\* the admission of a task of type 1 while no task of type 2 is in the
\* Cloudlet, and no task of type 2 is admitted to the Cloudlet while the
\* occupancy is >= threshold.
C38_Type2OnlyBelowThreshold ==
    /\ [](cloudlet.n_2 > 0 => CloudletOccupancy <= cloudlet.threshold)
    /\ [][/\ (cloudlet'.n_1 + cloudlet'.n_2 > cloudlet.threshold
                /\ cloudlet'.n_1 + cloudlet'.n_2 > CloudletOccupancy) =>
               /\ lastSubmit'.op = "submit_arrival_task_1"
               /\ cloudlet'.n_1 = cloudlet.n_1 + 1
               /\ cloudlet.n_2 = 0
          /\ cloudlet'.n_2 > cloudlet.n_2 =>
               CloudletOccupancy < cloudlet.threshold]_vars

\* a task of type 2 is served in a Cloudlet filled to the threshold, where
\* a task of type 1 has just taken the place of another task of type 2
C38_Witness ==
    /\ cloudlet.n_2 > 0
    /\ CloudletOccupancy = cloudlet.threshold
    /\ lastSubmit.op = "submit_arrival_task_1"
    /\ Len(lastSubmit.calls) = 3

\* C33: get_throughput returns (n_served_1 + n_served_2) /
\* t_last_completion and get_utilization returns area_service /
\* t_last_event; called while t_last_completion = 0 (before any
\* completion), respectively while t_last_event = 0 (before any event with
\* a positive time), the call fails with a division-by-zero error instead
\* of returning a number.
C33_DivisionByZero ==
    [][/\ lastSubmit'.op = "get_throughput" =>
            lastSubmit'.ret =
               IF t_last_completion = 0 THEN <<ZeroDivisionError>>
               ELSE <<(<<n_served_1 + n_served_2, t_last_completion>>)>>
       /\ lastSubmit'.op = "get_utilization" =>
            lastSubmit'.ret =
               IF t_last_event = 0 THEN <<ZeroDivisionError>>
               ELSE <<(<<area_service, t_last_event>>)>>]_vars

\* the throughput was read after an arrival at a positive time and before
\* any completion: the utilization is a number then, the throughput is not
C33_Witness ==
    /\ lastSubmit.op = "get_throughput"
    /\ lastSubmit.ret = <<ZeroDivisionError>>
    /\ n_arrival_1 + n_arrival_2 > 0
    /\ n_served_1 + n_served_2 = 0
    /\ t_last_event > 0
    /\ GetUtilization # ZeroDivisionError

(***************************************************************************)
(* Simulation.run in TRANSIENT_ANALYSIS mode, with its task generator, its *)
(* calendar and its system                                                 *)
(***************************************************************************)
\* the configured sample periods
SamplePeriods == 1..MaxSamplePeriod

\* Simulation.__init__, lines 60-96, and SimpleTaskgen.__init__: what the
\* two modes share
InitSimulationAnyMode ==
    /\ pc = "start"
    /\ closed_door = FALSE
    /\ event = None
    /\ events_to_schedule = <<>>
    /\ events_to_unschedule = <<>>
    /\ generated = [TASK_1 |-> 0, TASK_2 |-> 0]
    /\ t_sample \in SamplePeriods
    /\ t_last_sample = 0
    /\ sampled = [discards |-> 0, samples |-> 0]

\* Simulation.__init__ (TRANSIENT_ANALYSIS, lines 40-46)
InitSimulation ==
    /\ InitSimulationAnyMode
    /\ mode = "TRANSIENT_ANALYSIS"
    /\ t_stop \in 1..MaxStop
    /\ t_tran = 0
    /\ n_batches_wanted = Infinity
    /\ should_discard_transient_data = FALSE

\* Simulation.__init__ (PERFORMANCE_ANALYSIS, lines 49-56)
InitSimulationPerformance ==
    /\ InitSimulationAnyMode
    /\ mode = "PERFORMANCE_ANALYSIS"
    /\ t_stop = Infinity
    /\ t_tran \in 0..MaxTran
    /\ n_batches_wanted \in 1..MaxBatches
    /\ should_discard_transient_data = (t_tran > 0)

\* the sampled inter-arrival times: strictly positive
Interarrivals == 1..MaxInterarrival

\* an arrival generated before the current time
Generate_Backdated(t_clock) ==
    {Event(generated.TASK_1 + generated.TASK_2 + 1,
           EventType("ARRIVAL", "SYSTEM", tsk), t_clock - d)
       : tsk \in {"TASK_1", "TASK_2"}, d \in Interarrivals}

\* SimpleTaskgen.generate(t_clock): the arrivals it may return, of either
\* class, at t_clock plus a sampled inter-arrival time
Generate(t_clock) ==
    {Event(generated.TASK_1 + generated.TASK_2 + 1,
           EventType("ARRIVAL", "SYSTEM", tsk), t_clock + d)
       : tsk \in {"TASK_1", "TASK_2"}, d \in Interarrivals}

\* "Update state" of generate (lines 75-76); the generator of the simulation
\* is built without a stop time, so that every arrival is counted
CountGenerated(arrival) ==
    generated' = [generated EXCEPT ![arrival.type.tsk] = @ + 1]

\* System.is_idle()
IsIdle == n_1 + n_2 = 0

\* a door that closes only strictly after the stop time
ClosedDoorCondition_AfterStop(t) == t > t_stop

\* Simulation.closed_door_condition_transient_analysis, at clock time t
ClosedDoorCondition(t) == t >= t_stop

\* Simulation.closed_door_condition_performance_analysis
ClosedDoorConditionPerformance == statistics.n_batches >= n_batches_wanted

\* a stop condition that does not wait for the system to be idle
StopCondition_DoorOnly == closed_door

\* Simulation.stop_condition
StopCondition == closed_door /\ IsIdle

\* the events a result of the system asks to schedule: those that are not None
ToSchedule(ret) == SelectSeq(ret, LAMBDA e : e # None)

\* System.submit(event): the event goes to the operation of its type, which
\* answers the events to schedule and the events to unschedule
SystemSubmit(ev) ==
    CASE ev.type = ARRIVAL_TASK_1 ->
           /\ SubmitArrivalTask1(ev.time)
           /\ events_to_schedule' = ToSchedule(SubSeq(lastSubmit'.ret, 1, 2))
           /\ events_to_unschedule' = ToSchedule(SubSeq(lastSubmit'.ret, 3, 3))
      [] ev.type = ARRIVAL_TASK_2 ->
           /\ SubmitArrivalTask2(ev.time)
           /\ events_to_schedule' = lastSubmit'.ret
           /\ events_to_unschedule' = <<>>
      [] ev.type = COMPLETION_CLOUDLET_TASK_1 ->
           /\ SubmitCompletionCloudletTask1(ev.time)
           /\ in_service' = in_service \ {ev}
           /\ events_to_schedule' = <<>>
           /\ events_to_unschedule' = <<>>
           /\ UNCHANGED n_completions
      [] ev.type = COMPLETION_CLOUDLET_TASK_2 ->
           /\ SubmitCompletionCloudletTask2(ev.time)
           /\ in_service' = in_service \ {ev}
           /\ events_to_schedule' = <<>>
           /\ events_to_unschedule' = <<>>
           /\ UNCHANGED n_completions
      [] ev.type = COMPLETION_CLOUD_TASK_1 ->
           /\ SubmitCompletionCloudTask1(ev.time)
           /\ in_service' = in_service \ {ev}
           /\ events_to_schedule' = <<>>
           /\ events_to_unschedule' = <<>>
           /\ UNCHANGED n_completions
      [] ev.type = COMPLETION_CLOUD_TASK_2 ->
           /\ SubmitCompletionCloudTask2(ev.time)
           /\ in_service' = in_service \ {ev}
           /\ events_to_schedule' = <<>>
           /\ events_to_unschedule' = <<>>
           /\ UNCHANGED n_completions

\* line 118: the first arrival is generated and scheduled
RunFirstArrival ==
    /\ UNCHANGED notSimulation
    /\ pc = "start"
    /\ \E arrival \in Generate(clock) :
          /\ CountGenerated(arrival)
          /\ Schedule(arrival)
    /\ pc' = "loop"
    /\ UNCHANGED <<t_stop, closed_door, event, events_to_schedule,
                   events_to_unschedule>>
    /\ UNCHANGED systemVars

\* line 121, the stop condition holds: run returns
RunStop ==
    /\ UNCHANGED notSimulation
    /\ pc = "loop"
    /\ StopCondition
    /\ pc' = "done"
    /\ UNCHANGED <<t_stop, closed_door, event, events_to_schedule,
                   events_to_unschedule, generated>>
    /\ UNCHANGED <<calendarVars, systemVars>>

\* lines 121-129: the stop condition does not hold, the next event is taken
\* from the calendar and the closed-door condition is evaluated; without an
\* event, line 136 or the system raises
RunGetNextEvent ==
    /\ UNCHANGED notSimulation
    /\ pc = "loop"
    /\ ~StopCondition
    /\ GetNextEvent
    /\ event' = lastCall'.ret
    /\ closed_door' = IF mode = "TRANSIENT_ANALYSIS"
                      THEN ClosedDoorCondition(clock')
                      ELSE ClosedDoorConditionPerformance
    /\ pc' = IF blocked' THEN "blocked"
             ELSE IF lastCall'.ret = None THEN "raised"
             ELSE "submit"
    /\ UNCHANGED <<t_stop, events_to_schedule, events_to_unschedule, generated>>
    /\ UNCHANGED systemVars

\* lines 136-137: the event is submitted to the system, unless the door is
\* closed and the event is an arrival
RunSubmit ==
    /\ UNCHANGED notSimulation
    /\ pc = "submit"
    /\ IF closed_door = FALSE \/ event.type.act # "ARRIVAL"
       THEN /\ SystemSubmit(event)
            /\ pc' = "schedule"
       ELSE /\ pc' = "arrival"
            /\ UNCHANGED <<systemVars, events_to_schedule, events_to_unschedule>>
    /\ UNCHANGED <<t_stop, closed_door, event, generated>>
    /\ UNCHANGED calendarVars

\* line 139: self.calendar.schedule(*events_to_schedule), schedule being
\* schedule(self, ev): the call raises a TypeError unless exactly one event
\* is to be scheduled
RunSchedule ==
    /\ UNCHANGED notSimulation
    /\ pc = "schedule"
    /\ IF Len(events_to_schedule) = 1
       THEN /\ Schedule(events_to_schedule[1])
            /\ pc' = "unschedule"
       ELSE /\ pc' = "raised"
            /\ UNCHANGED calendarVars
    /\ UNCHANGED <<t_stop, closed_door, event, events_to_schedule,
                   events_to_unschedule, generated>>
    /\ UNCHANGED systemVars

\* line 140: self.calendar.unschedule(*events_to_unschedule)
RunUnschedule ==
    /\ UNCHANGED notSimulation
    /\ pc = "unschedule"
    /\ Unschedule({events_to_unschedule[i] : i \in DOMAIN events_to_unschedule})
    /\ pc' = "arrival"
    /\ UNCHANGED <<t_stop, closed_door, event, events_to_schedule,
                   events_to_unschedule, generated>>
    /\ UNCHANGED systemVars

\* an iteration that generates no further arrival
RunNextArrival_Forgotten ==
    /\ UNCHANGED notSimulation
    /\ pc = "arrival"
    /\ pc' = "discard"
    /\ UNCHANGED <<t_stop, closed_door, event, events_to_schedule,
                   events_to_unschedule, generated>>
    /\ UNCHANGED <<calendarVars, systemVars>>

\* lines 144-145: after an arrival met with the door open, the next arrival
\* is generated and scheduled
RunNextArrival ==
    /\ UNCHANGED notSimulation
    /\ pc = "arrival"
    /\ IF event.type.act = "ARRIVAL" /\ ~closed_door
       THEN \E arrival \in Generate(clock) :
               /\ CountGenerated(arrival)
               /\ Schedule(arrival)
       ELSE UNCHANGED <<calendarVars, generated>>
    /\ pc' = "discard"
    /\ UNCHANGED <<t_stop, closed_door, event, events_to_schedule,
                   events_to_unschedule>>
    /\ UNCHANGED systemVars

(***************************************************************************)
(* Properties of Simulation.run                                            *)
(***************************************************************************)
\* C15: in transient-analysis mode with a finite t_stop, strictly positive
\* inter-arrival times and non-negative service durations, run eventually
\* terminates: the closed-door condition eventually becomes true and, after
\* it, the system eventually becomes idle, so that the loop exits.
C15_RunTerminates == <>(pc = "done" /\ closed_door /\ IsIdle)

\* the step submits the event of run to the system
Submits == pc = "submit" /\ pc' = "schedule"

\* C16: in the loop of run, where scheduling and retrieval interleave, the
\* events submitted to the system have non-decreasing times and the clock
\* of the calendar never decreases, because every event scheduled in
\* reaction to an event at time t (the next arrival, a completion, the
\* completion of a restarted task) has a time >= t.
C16_RunInTimeOrder ==
    [][/\ clock' >= clock
       /\ Submits => (event.time >= t_last_event /\ t_last_event' = event.time
                                                 /\ event.time = clock)
       /\ (Scheduled /\ lastCall' # lastCall) => lastCall'.arg.time >= clock
       /\ \A e \in events' : e.time >= clock']_vars

\* a completion scheduled after the first retrieval was submitted after two
\* arrivals, later than the first of them
C16_Witness ==
    /\ pc = "schedule"
    /\ lastSubmit.op = "submit_completion_cloudlet_task_1"
    /\ lateSchedule
    /\ n_arrival_1 + n_arrival_2 >= 2
    /\ n_returned >= 3
    /\ clock >= 2

\* C30: once the closed-door condition is true in a loop iteration, an
\* arrival retrieved in that iteration is not submitted to the system and
\* no new arrival is generated or scheduled, while a completion is still
\* submitted; no arrival with time >= t_stop is ever submitted.
C30_ClosedDoor ==
    [][/\ (pc = "submit" /\ closed_door /\ event.type.act = "ARRIVAL") =>
             /\ pc' = "arrival"
             /\ UNCHANGED <<systemVars, calendarVars, generated>>
       /\ (pc = "arrival" /\ closed_door) =>
             /\ pc' = "discard"
             /\ UNCHANGED <<systemVars, calendarVars, generated>>
       /\ (pc = "submit" /\ closed_door /\ event.type.act = "COMPLETION") =>
             /\ pc' = "schedule"
             /\ lastSubmit'.time = event.time
             /\ n_served_1' + n_served_2' = n_served_1 + n_served_2 + 1
       /\ (Submits /\ event.type.act = "ARRIVAL") => event.time < t_stop]_vars

\* with the door closed a completion was submitted, after an arrival
\* retrieved at the stop time had been left out
C30_Witness ==
    /\ pc = "schedule"
    /\ closed_door
    /\ event.type.act = "COMPLETION"
    /\ lastSubmit.time = event.time
    /\ generated.TASK_1 + generated.TASK_2 = n_arrival_1 + n_arrival_2 + 1
    /\ \A e \in events : e.type.act # "ARRIVAL"
    /\ lastReturned = event

CallsGetNextEvent == pc = "loop" /\ ~(closed_door /\ n_1 + n_2 = 0)

\* the events of the calendar that are pending and not cancelled
NotCancelled == events \ ignore

C39_CancelsOnlyPending ==
    /\ [](ignore \subseteq events)
    /\ [][(pc = "unschedule" /\ pc' = "arrival") =>
            \A i \in DOMAIN events_to_unschedule :
               /\ events_to_unschedule[i] \in NotCancelled
               /\ events_to_unschedule[i].type = COMPLETION_CLOUDLET_TASK_2]_vars

\* the step discards the data of the transient period / takes a sample
Discards == sampled'.discards = sampled.discards + 1
Samples == sampled'.samples = sampled.samples + 1

\* C32: in one run the data of the transient period is discarded at most
\* once, only in PERFORMANCE_ANALYSIS mode with t_tran > 0, only after the
\* clock has exceeded t_tran and before the first sample is taken; no
\* sample is taken while the clock is <= t_tran, a sample is taken only
\* when clock >= t_last_sample + t_sample, and after it t_last_sample
\* equals the clock.
C32_DiscardOnceThenSample ==
    /\ [](sampled.discards <= 1)
    /\ [](sampled.discards > 0 => mode = "PERFORMANCE_ANALYSIS" /\ t_tran > 0)
    /\ [][/\ Discards => clock > t_tran /\ sampled.samples = 0
          /\ Samples =>
                /\ clock > t_tran
                /\ clock >= t_last_sample + t_sample
                /\ t_last_sample' = clock
                /\ mode = "PERFORMANCE_ANALYSIS" /\ t_tran > 0 =>
                      sampled.discards = 1
          /\ ~Samples => t_last_sample' = t_last_sample]_vars

\* the data of the transient period was discarded and a sample was taken
\* in the second iteration, the first one having ended within the
\* transient period
C32_Witness ==
    /\ mode = "PERFORMANCE_ANALYSIS"
    /\ t_tran > 0
    /\ sampled = [discards |-> 1, samples |-> 1]
    /\ t_last_sample = clock
    /\ n_returned = 2
    /\ pc = "loop"

(***************************************************************************)
(* MarcianiMultiStream and MarcianiSingleStream (core/random/rndgen.py)    *)
(* int(a / b) is the integer quotient: for the moduli modelled (below      *)
(* 2^31) the float quotient of two positive integers truncates to it.      *)
(***************************************************************************)
\* a step that never adds the modulus
Lehmer_NoWrap(c, m, seed) ==
    LET Q == m \div c
        R == m % c
    IN c * (seed % Q) - R * (seed \div Q)

\* a step that wraps a non-positive product one short of the modulus
Lehmer_WrapShort(c, m, seed) ==
    LET Q == m \div c
        R == m % c
        t == c * (seed % Q) - R * (seed \div Q)
    IN IF t > 0 THEN t ELSE t + m - 1

\* the step of rnd (lines 137-145) and of plant_seeds (lines 74-75, 83-87):
\* c * (seed % Q) - R * int(seed / Q), plus the modulus when it is not > 0
Lehmer(c, m, seed) ==
    LET Q == m \div c
        R == m % c
        t == c * (seed % Q) - R * (seed \div Q)
    IN IF t > 0 THEN t ELSE t + m

\* a put_seed without the test of the sign of x
PutSeed_Unchecked(g, x) ==
    [gen |-> [g EXCEPT !.seeds[g.stream + 1] = x % g.modulus], raised |-> FALSE]

\* MarcianiMultiStream.put_seed(x) on generator g: the generator after the
\* call, and whether the call raised ValueError
PutSeed(g, x) ==
    IF x > 0
    THEN [gen |-> [g EXCEPT !.seeds[g.stream + 1] = x % g.modulus], raised |-> FALSE]
    ELSE [gen |-> g, raised |-> TRUE]

\* the loop of plant_seeds (lines 82-87): the seeds of the n streams that
\* follow a stream of seed x, each derived from the seed of the stream
\* before it; the streams are walked in two halves, the first before the
\* second
RECURSIVE Jump(_, _, _)
Jump(g, x, n) ==
    IF n <= 0 THEN <<>>
    ELSE IF n = 1 THEN <<Lehmer(g.jumper, g.modulus, x)>>
    ELSE LET first == Jump(g, x, n \div 2)
         IN first \o Jump(g, first[Len(first)], n - n \div 2)

\* MarcianiMultiStream.plant_seeds(x): stream(0) and put_seed(x) come after
\* _init is set, and the active stream is put back after put_seed returned
PlantSeeds(g, x) ==
    LET selected == [g EXCEPT !.init = TRUE, !.stream = 0 % g.streams]
        put == PutSeed(selected, x)
        back == [put.gen EXCEPT !.stream = g.stream]
    IN IF put.raised
       THEN [gen |-> selected, raised |-> TRUE]
       ELSE [gen |-> [back EXCEPT !.seeds = <<back.seeds[1]>> \o
                                            Jump(back, back.seeds[1], back.streams - 1)],
             raised |-> FALSE]

\* MarcianiMultiStream.stream(stream_id)
Stream(g, stream_id) ==
    LET selected == [g EXCEPT !.stream = stream_id % g.streams]
    IN IF selected.init = FALSE /\ selected.stream # 0
       THEN PlantSeeds(selected, selected.iseed).gen
       ELSE selected

\* MarcianiMultiStream.get_seed()
GetSeed(g) == g.seeds[g.stream + 1]

\* a rnd that advances the seed of every stream
Rnd_EveryStream(g) ==
    [g EXCEPT !.seeds = [j \in 1..g.streams |->
                            Lehmer(g.multiplier, g.modulus, g.seeds[j])]]

\* MarcianiMultiStream.rnd(): the generator after the call
Rnd(g) ==
    [g EXCEPT !.seeds[g.stream + 1] = Lehmer(g.multiplier, g.modulus, @)]

\* the float rnd returns, seed / modulus, as numerator and denominator
Draw(g) == <<GetSeed(g), g.modulus>>

\* MarcianiMultiStream.__init__
MarcianiMultiStream(iseed, modulus, multiplier, streams, jumper) ==
    PlantSeeds([iseed |-> iseed, seed |-> iseed, stream |-> 0,
                modulus |-> modulus, multiplier |-> multiplier,
                streams |-> streams, jumper |-> jumper, init |-> FALSE,
                seeds |-> [j \in 1..streams |-> iseed]],
               iseed).gen

\* MarcianiSingleStream.__init__
MarcianiSingleStream(iseed, modulus, multiplier) ==
    [iseed |-> iseed, seed |-> iseed, modulus |-> modulus,
     multiplier |-> multiplier]

\* MarcianiSingleStream.rnd(): the generator after the call
SingleRnd(g) == [g EXCEPT !.seed = Lehmer(g.multiplier, g.modulus, @)]

\* MarcianiSingleStream.get_seed()
SingleGetSeed(g) == g.seed

\* MarcianiSingleStream.put_seed(x) on generator g (lines 192-195): the
\* generator after the call, and whether the call raised ValueError; the
\* remainder x % modulus stays in the local x and no field is assigned
SinglePutSeed(g, x) ==
    IF x > 0
    THEN [gen |-> g, raised |-> FALSE]
    ELSE [gen |-> g, raised |-> TRUE]

\* the multi-stream generators that exist side by side
Instances == {1, 2}

\* two generators built with the same parameters, and a single-stream one
InitGenerators(iseed, modulus, multiplier, streams, jumper) ==
    /\ multi = [i \in Instances |->
                  MarcianiMultiStream(iseed, modulus, multiplier, streams, jumper)]
    /\ single = MarcianiSingleStream(iseed, modulus, multiplier)
    /\ n_rnd = [single |-> 0, multi |-> 0]
    /\ script = <<>>
    /\ replayed = 0
    /\ outputs = [i \in Instances |-> <<>>]
    /\ lastGen = [n |-> 0, op |-> "__init__", arg |-> iseed, raised |-> FALSE,
                  ret |-> <<>>]

\* generators whose seeds are one list shared by all the instances
MultiRnd_SharedSeeds(i) ==
    multi' = [j \in Instances |-> [multi[j] EXCEPT !.seeds = Rnd(multi[i]).seeds]]

\* rnd() is called on the instance i
MultiRnd(i) == multi' = [multi EXCEPT ![i] = Rnd(multi[i])]

\* stream(k) is called on the instance i
MultiStream(i, k) == multi' = [multi EXCEPT ![i] = Stream(multi[i], k)]

\* a call of the script is made to the instance i; the seed and the draw it
\* gave are recorded
Perform(i, call) ==
    /\ IF call.op = "rnd" THEN MultiRnd(i) ELSE MultiStream(i, call.arg)
    /\ outputs' = [outputs EXCEPT ![i] =
                      Append(@, [seed |-> GetSeed(multi'[i]),
                                 draw |-> IF call.op = "rnd" THEN Draw(multi'[i])
                                                             ELSE <<>>])]

\* the caller of the first generator calls rnd()
CallRnd ==
    /\ Len(script) < MaxCalls
    /\ Perform(1, [op |-> "rnd", arg |-> 0])
    /\ script' = Append(script, [op |-> "rnd", arg |-> 0])
    /\ UNCHANGED <<single, n_rnd, replayed, lastGen>>
    /\ UNCHANGED notGenerator

\* the caller of the first generator calls stream(k)
CallStream ==
    /\ Len(script) < MaxCalls
    /\ \E k \in 0..MaxStreams :
          /\ Perform(1, [op |-> "stream", arg |-> k])
          /\ script' = Append(script, [op |-> "stream", arg |-> k])
    /\ UNCHANGED <<single, n_rnd, replayed, lastGen>>
    /\ UNCHANGED notGenerator

\* the caller of the second generator makes the next call of the same sequence
ReplayCall ==
    /\ replayed < Len(script)
    /\ Perform(2, script[replayed + 1])
    /\ replayed' = replayed + 1
    /\ UNCHANGED <<single, n_rnd, script, lastGen>>
    /\ UNCHANGED notGenerator

NextGenerators == CallRnd \/ CallStream \/ ReplayCall

\* the check of rndgen.py, first loop (lines 222-224): rnd() on the
\* single-stream generator
CheckSingleRnd ==
    /\ n_rnd.single < CHECKI
    /\ single' = SingleRnd(single)
    /\ n_rnd' = [n_rnd EXCEPT !.single = @ + 1]
    /\ UNCHANGED <<multi, script, replayed, outputs, lastGen>>
    /\ UNCHANGED notGenerator

\* the check of rndgen.py, second loop (lines 228-230): rnd() on the
\* multi-stream generator
CheckMultiRnd ==
    /\ n_rnd.single = CHECKI
    /\ n_rnd.multi < CHECKI
    /\ MultiRnd(1)
    /\ n_rnd' = [n_rnd EXCEPT !.multi = @ + 1]
    /\ UNCHANGED <<single, script, replayed, outputs, lastGen>>
    /\ UNCHANGED notGenerator

NextCheck == CheckSingleRnd \/ CheckMultiRnd

(***************************************************************************)
(* The caller of one MarcianiMultiStream generator alone                   *)
(***************************************************************************)
\* the seeds the caller passes: negative, zero, small, the modulus and the
\* value after it
SeedArguments(m) == (-1 .. MaxSeed) \cup {m, m + 1}

\* put_seed(x) is called on the instance i
MultiPutSeed(i, x) == multi' = [multi EXCEPT ![i] = PutSeed(multi[i], x).gen]

\* plant_seeds(x) is called on the instance i
MultiPlantSeeds(i, x) == multi' = [multi EXCEPT ![i] = PlantSeeds(multi[i], x).gen]

\* the call the caller has just made
Called(op, arg, raised, ret) ==
    lastGen' = [n |-> lastGen.n + 1, op |-> op, arg |-> arg, raised |-> raised,
                ret |-> ret]

\* the caller calls rnd(); the float it returns is recorded
StreamsRnd ==
    /\ lastGen.n < MaxCalls
    /\ MultiRnd(1)
    /\ Called("rnd", 0, FALSE, Draw(multi'[1]))
    /\ UNCHANGED <<single, n_rnd, script, replayed, outputs>>
    /\ UNCHANGED notGenerator

\* the caller calls stream(k)
StreamsStream ==
    /\ lastGen.n < MaxCalls
    /\ \E k \in 0..MaxStreams :
          /\ MultiStream(1, k)
          /\ Called("stream", k, FALSE, <<>>)
    /\ UNCHANGED <<single, n_rnd, script, replayed, outputs>>
    /\ UNCHANGED notGenerator

\* the caller calls put_seed(x) and then get_seed(), whose value is recorded
StreamsPutSeed ==
    /\ lastGen.n < MaxCalls
    /\ \E x \in SeedArguments(multi[1].modulus) :
          /\ MultiPutSeed(1, x)
          /\ Called("put_seed", x, PutSeed(multi[1], x).raised,
                    <<GetSeed(multi'[1])>>)
    /\ UNCHANGED <<single, n_rnd, script, replayed, outputs>>
    /\ UNCHANGED notGenerator

\* the caller calls plant_seeds(x)
StreamsPlantSeeds ==
    /\ lastGen.n < MaxCalls
    /\ \E x \in SeedArguments(multi[1].modulus) :
          /\ MultiPlantSeeds(1, x)
          /\ Called("plant_seeds", x, PlantSeeds(multi[1], x).raised, <<>>)
    /\ UNCHANGED <<single, n_rnd, script, replayed, outputs>>
    /\ UNCHANGED notGenerator

\* the caller calls plant_seeds(get_seed()): the streams are planted again
\* from the seed the active stream has reached
StreamsReplant ==
    /\ lastGen.n < MaxCalls
    /\ MultiPlantSeeds(1, GetSeed(multi[1]))
    /\ Called("plant_seeds", GetSeed(multi[1]),
              PlantSeeds(multi[1], GetSeed(multi[1])).raised, <<>>)
    /\ UNCHANGED <<single, n_rnd, script, replayed, outputs>>
    /\ UNCHANGED notGenerator

\* the caller of the single-stream generator calls rnd()
SingleStreamRnd ==
    /\ lastGen.n < MaxCalls
    /\ single' = SingleRnd(single)
    /\ Called("rnd", 0, FALSE, <<SingleGetSeed(single'), single.modulus>>)
    /\ UNCHANGED <<multi, n_rnd, script, replayed, outputs>>
    /\ UNCHANGED notGenerator

\* the caller of the single-stream generator calls put_seed(x) and then
\* get_seed(), whose value is recorded
SingleStreamPutSeed ==
    /\ lastGen.n < MaxCalls
    /\ \E x \in SeedArguments(single.modulus) :
          /\ single' = SinglePutSeed(single, x).gen
          /\ Called("put_seed", x, SinglePutSeed(single, x).raised,
                    <<SingleGetSeed(single')>>)
    /\ UNCHANGED <<multi, n_rnd, script, replayed, outputs>>
    /\ UNCHANGED notGenerator

NextSingle == SingleStreamRnd \/ SingleStreamPutSeed

NextSchrage == StreamsRnd \/ StreamsReplant

NextStreams == StreamsRnd \/ StreamsStream \/ StreamsPutSeed \/ StreamsPlantSeeds

(***************************************************************************)
(* SimpleTaskgen (core/simulation/model/taskgen.py) over a generator       *)
(* Rates and probabilities are fractions <<numerator, denominator>>.       *)
(***************************************************************************)
\* the distributions a configuration names (config.py)
Variates == {"EXPONENTIAL", "DETERMINISTIC"}

\* the task classes, TaskScope.concrete()
TaskScopes == {"TASK_1", "TASK_2"}

\* the arrival configurations: per class a distribution and its mean "m"
Configs == [TaskScopes -> [distribution : Variates, m : 1..MaxInterarrival]]

\* the stop times a task generator is constructed with: a finite one, and
\* the default
TaskgenStops == {MaxStop, Infinity}

\* no task generator has been constructed
NoTaskgen ==
    [state |-> "none", var |-> <<>>, par |-> <<>>, r_tot |-> <<0, 1>>,
     p1 |-> <<0, 1>>, t_stop |-> Infinity]

\* a constructor that accepts a configuration with one exponential class
SimpleTaskgen_AnyExponential(config, t_final) ==
    IF \E tsk \in TaskScopes : config[tsk].distribution = "EXPONENTIAL"
    THEN [NoTaskgen EXCEPT !.state = "built", !.t_stop = t_final]
    ELSE [NoTaskgen EXCEPT !.state = "NotImplementedError", !.t_stop = t_final]

\* SimpleTaskgen.__init__(rndgen, config, t_stop): the object, or the
\* exception raised; r_tot = 1/m1 + 1/m2 and p1 = (1/m1) / r_tot
SimpleTaskgen(config, t_final) ==
    LET var == [tsk \in TaskScopes |-> config[tsk].distribution]
        par == [tsk \in TaskScopes |-> [m |-> config[tsk].m]]
    IN IF \A tsk \in TaskScopes : var[tsk] = "EXPONENTIAL"
       THEN [state |-> "built", var |-> var, par |-> par,
             r_tot |-> <<par.TASK_1.m + par.TASK_2.m, par.TASK_1.m * par.TASK_2.m>>,
             p1 |-> <<par.TASK_2.m, par.TASK_1.m + par.TASK_2.m>>,
             t_stop |-> t_final]
       ELSE [NoTaskgen EXCEPT !.state = "NotImplementedError", !.var = var,
                              !.par = par, !.t_stop = t_final]

\* exponential(m, u): the sampled duration, which grows with the mean m and
\* with the uniform u, in whole time units from 1
Exponential(m, u) == 1 + (m[1] * u[1] * MaxInterarrival) \div (m[2] * u[2])

\* SimpleTaskgen._generate_exponential(t_clock) on the generator g: the
\* generator after the call, the class and the time of the arrival
GenerateExponential(g, tg, t_clock) ==
    LET selected == Stream(g, STREAM_ARRIVAL_TYPE)
        first == Rnd(selected)
        u == Draw(first)
        tsk == IF u[1] * tg.p1[2] <= tg.p1[1] * u[2] THEN "TASK_1" ELSE "TASK_2"
        second == Rnd(first)
    IN [gen |-> second, tsk |-> tsk,
        t_event |-> t_clock + Exponential(<<tg.r_tot[2], tg.r_tot[1]>>, Draw(second))]

\* the caller constructs the task generator from a configuration
TaskgenConstruct ==
    /\ taskgen.state = "none"
    /\ \E config \in Configs, t_final \in TaskgenStops :
          taskgen' = SimpleTaskgen(config, t_final)
    /\ UNCHANGED <<multi, lastGen, generated>>
    /\ UNCHANGED notTaskgen

\* the stream RandomComponent draws the arrivals of a class from
ArrivalStream(tsk) == IF tsk = "TASK_1" THEN 0 ELSE 1

\* RandomComponent.generate(tsk) on the generator g: the generator after
\* the call and the duration sampled from the distribution of the class
RandomComponentGenerate(g, tg, tsk) ==
    LET drawn == Rnd(Stream(g, ArrivalStream(tsk)))
    IN [gen |-> drawn, value |-> Exponential(<<tg.par[tsk].m, 1>>, Draw(drawn))]

\* a count that includes the arrival at the stop time
UpdateState_UpToStop(tg, counts, tsk, t_event) ==
    IF t_event <= tg.t_stop THEN [counts EXCEPT ![tsk] = @ + 1] ELSE counts

\* "Update state" of generate (lines 75-76): self.generated after the
\* arrival of class tsk at t_event was made
UpdateState(tg, counts, tsk, t_event) ==
    IF t_event < tg.t_stop THEN [counts EXCEPT ![tsk] = @ + 1] ELSE counts

\* the time the caller passes to generate: that of the arrival generated
\* before
CallerClock ==
    IF lastGen.op \in {"generate", "generate_tsk"} THEN lastGen.ret[2] ELSE 0

\* the caller calls generate(t_clock) with no class forced
TaskgenGenerate ==
    /\ taskgen.state = "built"
    /\ lastGen.n < MaxCalls
    /\ LET t_clock == CallerClock
           made == GenerateExponential(multi[1], taskgen, t_clock)
       IN /\ multi' = [multi EXCEPT ![1] = made.gen]
          /\ generated' = UpdateState(taskgen, generated, made.tsk, made.t_event)
          /\ Called("generate", t_clock, FALSE, <<made.tsk, made.t_event>>)
    /\ UNCHANGED taskgen
    /\ UNCHANGED notTaskgen

\* the caller calls generate(t_clock, tsk) with the class tsk forced
TaskgenGenerateClass ==
    /\ taskgen.state = "built"
    /\ lastGen.n < MaxCalls
    /\ \E tsk \in TaskScopes :
       LET t_clock == CallerClock
           made == RandomComponentGenerate(multi[1], taskgen, tsk)
           t_event == t_clock + made.value
       IN /\ multi' = [multi EXCEPT ![1] = made.gen]
          /\ generated' = UpdateState(taskgen, generated, tsk, t_event)
          /\ Called("generate_tsk", t_clock, FALSE, <<tsk, t_event>>)
    /\ UNCHANGED taskgen
    /\ UNCHANGED notTaskgen

NextTaskgen == TaskgenConstruct \/ TaskgenGenerate \/ TaskgenGenerateClass

(***************************************************************************)
(* BatchStatistics (core/simulation/model/statistics.py)                   *)
(* The accumulators keep the closed batches and an open batch [n, sum]; a  *)
(* mean is the fraction <<sum, n>>.                                        *)
(***************************************************************************)
\* the accumulators of the group: BatchedMeasure (lines 17-20),
\* BatchedSampleStatistic (23-24), BatchedSamplePathStatistic (27)
Measures == {"arrived", "completed", "switched", "service"}
SampleStatistics == {"n", "response"}
SamplePathStatistics == {"throughput"}
Accumulators == Measures \cup SampleStatistics \cup SamplePathStatistics

\* the open batch of an accumulator that holds no data
Identity == [n |-> 0, sum |-> 0]

\* a new accumulator
Batched == [closed |-> <<>>, open |-> Identity]

\* add_value(v) of an accumulator
AccAddValue(acc, v) ==
    [acc EXCEPT !.open = [n |-> @.n + 1, sum |-> @.sum + v]]

\* the data point an open batch is sealed as: the total of a measure, the
\* mean of a statistic
DataPoint(a, open) ==
    IF a \in Measures THEN open.sum ELSE <<open.sum, open.n>>

\* register_batch() of the accumulator a
AccRegisterBatch(a, acc) ==
    [closed |-> Append(acc.closed, DataPoint(a, acc.open)), open |-> Identity]

\* discard_batch() of an accumulator
AccDiscardBatch(acc) == [acc EXCEPT !.open = Identity]

\* get_value(b) of an accumulator
GetValue(acc, b) == acc.closed[b + 1]

\* BatchStatistics.__init__
BatchStatistics == [acc |-> [a \in Accumulators |-> Batched], n_batches |-> 0]

\* a register_batch that leaves the throughput out
RegisterBatch_NoThroughput(st) ==
    [acc |-> [a \in Accumulators |->
                 IF a = "throughput" THEN st.acc[a]
                 ELSE AccRegisterBatch(a, st.acc[a])],
     n_batches |-> st.n_batches + 1]

\* BatchStatistics.register_batch
RegisterBatch(st) ==
    [acc |-> [a \in Accumulators |-> AccRegisterBatch(a, st.acc[a])],
     n_batches |-> st.n_batches + 1]

\* a discard_batch that leaves the response out
DiscardBatch_NoResponse(st) ==
    [st EXCEPT !.acc = [a \in Accumulators |->
                           IF a = "response" THEN st.acc[a]
                           ELSE AccDiscardBatch(st.acc[a])]]

\* BatchStatistics.discard_batch
DiscardBatch(st) ==
    [st EXCEPT !.acc = [a \in Accumulators |-> AccDiscardBatch(st.acc[a])]]

\* a save_csv that reads the batches from the last to the first
SaveCsv_Backwards(st) ==
    [i \in 1..st.n_batches |->
       [a \in Accumulators \cup {"batch"} |->
          IF a = "batch" THEN i - 1 ELSE GetValue(st.acc[a], st.n_batches - i)]]

\* the rows BatchStatistics.save_csv hands to save: one per batch, with the
\* batch index and get_value(b) of each accumulator
SaveCsv(st) ==
    [i \in 1..st.n_batches |->
       [a \in Accumulators \cup {"batch"} |->
          IF a = "batch" THEN i - 1 ELSE GetValue(st.acc[a], i - 1)]]

\* the number of values added since the last register_batch or discard_batch
Pending == batches.added - batches.dropped - batches.closed

\* the caller adds a value to the open batch of one accumulator
StatisticsAddValue ==
    /\ batches.added < MaxSamples
    /\ \E a \in Accumulators, v \in 1..MaxValue :
          /\ statistics' = [statistics EXCEPT !.acc[a] = AccAddValue(@, v)]
          /\ batches' = [batches EXCEPT !.op = "add_value", !.added = @ + 1,
                                         !.pending[a] = Append(@, v)]
    /\ UNCHANGED notStatistics

\* the caller calls register_batch()
StatisticsRegisterBatch ==
    /\ batches.registered < MaxBatches
    /\ statistics' = RegisterBatch(statistics)
    /\ batches' = [batches EXCEPT !.op = "register_batch",
                                   !.registered = @ + 1,
                                   !.closed = @ + Pending,
                                   !.pending = [a \in Accumulators |-> <<>>],
                                   !.sealed = Append(@, batches.pending)]
    /\ UNCHANGED notStatistics

\* the caller calls discard_batch()
StatisticsDiscardBatch ==
    /\ statistics' = DiscardBatch(statistics)
    /\ batches' = [batches EXCEPT !.op = "discard_batch",
                                   !.dropped = @ + Pending,
                                   !.pending = [a \in Accumulators |-> <<>>]]
    /\ UNCHANGED notStatistics

NextStatistics ==
    StatisticsAddValue \/ StatisticsRegisterBatch \/ StatisticsDiscardBatch

(***************************************************************************)
(* Simulation.run: the end of an iteration, where the data of the          *)
(* transient period is discarded and the metrics are sampled               *)
(***************************************************************************)
\* a transient period that is over as soon as the clock reaches t_tran
TransientIsOver_AtTran == clock >= t_tran

\* line 151: the transient period has been passed over
TransientIsOver == clock > t_tran

\* SimulationMetrics.discard_data(): the open batch is dropped
DiscardData(st) == DiscardBatch(st)

\* SimulationMetrics.sampling(t): the open batch is closed as a sample
Sampling(st) == RegisterBatch(st)

\* lines 151-158: past the transient period, the data of the transient
\* period is discarded if that is still to do; within it the iteration ends
RunDiscard ==
    /\ pc = "discard"
    /\ IF TransientIsOver
       THEN /\ IF should_discard_transient_data
               THEN /\ statistics' = DiscardData(statistics)
                    /\ sampled' = [sampled EXCEPT !.discards = @ + 1]
               ELSE UNCHANGED <<statistics, sampled>>
            /\ should_discard_transient_data' = FALSE
            /\ pc' = "sample"
       ELSE /\ pc' = "loop"
            /\ UNCHANGED <<statistics, sampled, should_discard_transient_data>>
    /\ UNCHANGED <<mode, t_tran, t_sample, n_batches_wanted, t_last_sample>>
    /\ UNCHANGED <<t_stop, closed_door, event, events_to_schedule,
                   events_to_unschedule, generated>>
    /\ UNCHANGED <<calendarVars, systemVars, generatorVars, taskgenVars, batches>>

\* lines 160-170: a sample is taken if the sample period has elapsed since
\* the last one
RunSample ==
    /\ pc = "sample"
    /\ IF clock >= t_last_sample + t_sample
       THEN /\ statistics' = Sampling(statistics)
            /\ t_last_sample' = clock
            /\ sampled' = [sampled EXCEPT !.samples = @ + 1]
       ELSE UNCHANGED <<statistics, t_last_sample, sampled>>
    /\ pc' = "loop"
    /\ UNCHANGED <<mode, t_tran, t_sample, n_batches_wanted,
                   should_discard_transient_data>>
    /\ UNCHANGED <<t_stop, closed_door, event, events_to_schedule,
                   events_to_unschedule, generated>>
    /\ UNCHANGED <<calendarVars, systemVars, generatorVars, taskgenVars, batches>>

NextSimulation ==
    \/ RunFirstArrival \/ RunStop \/ RunGetNextEvent \/ RunSubmit
    \/ RunSchedule \/ RunUnschedule \/ RunNextArrival
    \/ RunDiscard \/ RunSample

C20_KnownAnswer ==
    /\ n_rnd.single = CHECKI => single.seed = CHECK
    /\ n_rnd.multi = CHECKI => GetSeed(multi[1]) = CHECK
    /\ n_rnd.multi = CHECKI => single.seed = GetSeed(multi[1])
    /\ multi[1].stream = 0

\* both loops of the check have made their 10000 calls
C20_Witness ==
    /\ n_rnd.single = CHECKI
    /\ n_rnd.multi = CHECKI
    /\ GetSeed(multi[1]) = CHECK

\* a call of the caller of one generator
StreamsCall(op) == lastGen'.n = lastGen.n + 1 /\ lastGen'.op = op

\* C21: rnd() and put_seed() change only the seed of the currently selected
\* stream: the seed of every other stream, and the selection, are the same
\* before and after the call; stream(k) changes no seed of an initialized
\* generator.
C21_OnlyActiveStream ==
    [][/\ (StreamsCall("rnd") \/ StreamsCall("put_seed")) =>
            /\ multi'[1].stream = multi[1].stream
            /\ \A j \in 1..multi[1].streams :
                  j # multi[1].stream + 1 => multi'[1].seeds[j] = multi[1].seeds[j]
       /\ (StreamsCall("stream") /\ multi[1].init) =>
            multi'[1].seeds = multi[1].seeds]_vars

\* a seed was put on the second stream after a draw on the first one and
\* the selection of the second
C21_Witness ==
    /\ lastGen.op = "put_seed"
    /\ ~lastGen.raised
    /\ lastGen.n = 3
    /\ multi[1].stream = 1
    /\ multi[1].seeds[1] =
          Lehmer(multi[1].multiplier, multi[1].modulus, multi[1].iseed)
    /\ multi[1].seeds[2] = lastGen.arg % multi[1].modulus
    /\ multi[1].seeds[2] # Lehmer(multi[1].jumper, multi[1].modulus, multi[1].iseed)

\* C22: put_seed(x) with x <= 0 fails with ValueError and plant_seeds(x)
\* with x <= 0 fails the same way; put_seed(x) with x > 0 does not fail and
\* sets the seed of the active stream to x mod M, which get_seed() returns.
C22_SeedDomain ==
    [][/\ StreamsCall("put_seed") =>
            /\ lastGen'.raised <=> lastGen'.arg <= 0
            /\ lastGen'.arg > 0 =>
                  /\ multi'[1].seeds[multi[1].stream + 1] =
                        lastGen'.arg % multi[1].modulus
                  /\ lastGen'.ret = <<lastGen'.arg % multi[1].modulus>>
       /\ StreamsCall("plant_seeds") =>
            (lastGen'.raised <=> lastGen'.arg <= 0)]_vars

\* put_seed was given a seed above the modulus on the second stream
C22_Witness ==
    /\ lastGen.op = "put_seed"
    /\ lastGen.arg > multi[1].modulus
    /\ ~lastGen.raised
    /\ multi[1].stream = 1
    /\ lastGen.ret = <<1>>

\* C23: the seed of every stream is in the open interval (0, M) after any
\* sequence of stream, rnd, put_seed and plant_seeds calls with strictly
\* positive seeds or failed ones, and every rnd() result is strictly
\* between 0 and 1.
C23_SeedsInOpenInterval ==
    /\ \A j \in 1..multi[1].streams :
          multi[1].seeds[j] > 0 /\ multi[1].seeds[j] < multi[1].modulus
    /\ lastGen.op = "rnd" => lastGen.ret[1] > 0 /\ lastGen.ret[1] < lastGen.ret[2]

\* the seeds of the streams 1..K-1 of g are each the product of the jumper
\* and the seed of the stream before, modulo M
Planted(g) ==
    \A j \in 2..g.streams : g.seeds[j] = (g.jumper * g.seeds[j - 1]) % g.modulus

C40_FailedPlantSeedsKeepsState ==
    [][StreamsCall("plant_seeds") =>
          /\ multi'[1].stream = multi[1].stream
          /\ lastGen'.raised => multi'[1].seeds = multi[1].seeds]_vars

\* C34: MarcianiSingleStream.put_seed(x) with x > 0 initializes the
\* generator with the given seed: afterwards get_seed() returns x mod M and
\* the next rnd() continues from that seed; with x <= 0 it raises
\* ValueError and leaves the seed unchanged.
C34_SinglePutSeed ==
    [][/\ StreamsCall("put_seed") =>
            /\ lastGen'.raised <=> lastGen'.arg <= 0
            /\ lastGen'.raised => single'.seed = single.seed
            /\ ~lastGen'.raised =>
                  /\ single'.seed = lastGen'.arg % single.modulus
                  /\ lastGen'.ret = <<lastGen'.arg % single.modulus>>
       /\ (StreamsCall("rnd") /\ lastGen.op = "put_seed" /\ ~lastGen.raised) =>
            single'.seed = Lehmer(single.multiplier, single.modulus,
                                  lastGen.arg % single.modulus)]_vars

\* the step constructs the task generator from the configuration config
Constructs(config) ==
    /\ taskgen.state = "none"
    /\ \E t_final \in TaskgenStops : taskgen' = SimpleTaskgen(config, t_final)

\* C24: each generate without a forced class takes the class-decision
\* uniform from stream STREAM_ARRIVAL_TYPE and the inter-arrival-time
\* uniform from the distinct stream STREAM_ARRIVAL_TIME: per generated
\* arrival the type stream advances exactly once and the time stream
\* advances exactly once.
C24_TypeAndTimeStreams ==
    [][StreamsCall("generate") =>
         LET type == (STREAM_ARRIVAL_TYPE % multi[1].streams) + 1
             time == (STREAM_ARRIVAL_TIME % multi[1].streams) + 1
         IN /\ type # time
            /\ multi'[1].seeds[type] =
                  Lehmer(multi[1].multiplier, multi[1].modulus, multi[1].seeds[type])
            /\ multi'[1].seeds[time] =
                  Lehmer(multi[1].multiplier, multi[1].modulus, multi[1].seeds[time])]_vars

\* C25: constructing the task generator fails with NotImplementedError, and
\* leaves no generator to call, when the arrival distribution of at least
\* one class is not exponential, and succeeds when all are exponential.
C25_OnlyExponentialArrivals ==
    [][/\ \A config \in Configs : Constructs(config) =>
             IF \A tsk \in TaskScopes : config[tsk].distribution = "EXPONENTIAL"
             THEN taskgen'.state = "built"
             ELSE taskgen'.state = "NotImplementedError"
       /\ taskgen.state = "NotImplementedError" =>
             UNCHANGED <<taskgen, generated, multi>>]_vars

\* the construction failed for a configuration whose first class is
\* exponential and whose second class is not
C25_Witness ==
    /\ taskgen.state = "NotImplementedError"
    /\ taskgen.var.TASK_1 = "EXPONENTIAL"
    /\ taskgen.var.TASK_2 # "EXPONENTIAL"

\* a generate call of the caller of the task generator, with or without a
\* forced class
Generates == StreamsCall("generate") \/ StreamsCall("generate_tsk")

RECURSIVE Total(_)
Total(values) ==
    IF values = <<>> THEN 0 ELSE values[1] + Total(Tail(values))

\* the data point of the accumulator a for the values added to a batch
KnownValue(a, values) ==
    IF a \in Measures THEN Total(values) ELSE <<Total(values), Len(values)>>

\* n_batches is the number of register_batch calls and the number of
\* closed batches of every accumulator
Uniform(st, h) ==
    /\ st.n_batches = h.registered
    /\ \A a \in Accumulators : Len(st.acc[a].closed) = st.n_batches

\* C26: after any sequence of register_batch and discard_batch calls on a
\* BatchStatistics group, n_batches equals the number of register_batch
\* calls so far and the number of closed batches of every one of its
\* accumulators; discard_batch changes neither n_batches nor any closed
\* batch.
C26_UniformBatchCount ==
    /\ Uniform(statistics, batches)
    /\ [][/\ Uniform(statistics', batches')
          /\ batches'.op = "discard_batch" =>
                /\ statistics'.n_batches = statistics.n_batches
                /\ \A a \in Accumulators :
                      statistics'.acc[a].closed = statistics.acc[a].closed]_vars

\* a batch with data was discarded after a batch had been registered
C26_Witness ==
    /\ batches.op = "discard_batch"
    /\ batches.registered >= 1
    /\ batches.dropped > 0
    /\ batches.closed > 0
    /\ statistics.n_batches = batches.registered

\* C27: sealing k batches with known per-batch values and then reading
\* them back by batch index 0..k-1, as save_csv does, yields exactly those
\* values in the order they were registered, whatever was registered or
\* discarded later.
C27_BatchRoundTrip ==
    /\ Len(SaveCsv(statistics)) = Len(batches.sealed)
    /\ \A b \in 0..(Len(batches.sealed) - 1) :
          /\ SaveCsv(statistics)[b + 1].batch = b
          /\ \A a \in Accumulators :
                SaveCsv(statistics)[b + 1][a] = KnownValue(a, batches.sealed[b + 1][a])

\* two batches with different values were sealed, the first one with data
C27_Witness ==
    /\ Len(batches.sealed) >= 2
    /\ batches.sealed[1] # batches.sealed[2]
    /\ \E a \in Measures : SaveCsv(statistics)[1][a] > 0
    /\ batches.op = "register_batch"

\* C28: after discard_batch the open batch of every accumulator is its
\* identity value, and a batch sealed by a later register_batch contains
\* only the data added after the discard.
C28_DiscardClearsOpenBatch ==
    [][/\ batches'.op = "discard_batch" =>
             \A a \in Accumulators : statistics'.acc[a].open = Identity
       /\ batches'.registered = batches.registered + 1 =>
             \A a \in Accumulators :
                GetValue(statistics'.acc[a], batches.registered) =
                   KnownValue(a, batches.pending[a])]_vars

\* a batch was sealed with data added after a discard that had dropped data
C28_Witness ==
    /\ batches.op = "register_batch"
    /\ batches.dropped > 0
    /\ Pending = 0
    /\ \E a \in SampleStatistics :
          /\ batches.sealed[Len(batches.sealed)][a] # <<>>
          /\ GetValue(statistics.acc[a], batches.registered - 1) = <<1, 1>>

\* the generators nobody calls, beside the other components
InitGeneratorsIdle ==
    InitGenerators(1, SmallModulus, SmallMultiplier, MaxStreams, SmallJumper)

\* a new group of statistics
InitStatistics ==
    /\ statistics = BatchStatistics
    /\ batches = [op |-> "__init__", registered |-> 0, added |-> 0,
                  dropped |-> 0, closed |-> 0, pending |-> [a \in Accumulators |-> <<>>],
                  sealed |-> <<>>]

\* the task generator of the default kind of configuration, which nobody
\* calls, beside a new group of statistics
InitTaskgenIdle ==
    /\ InitStatistics
    /\ taskgen = SimpleTaskgen([tsk \in TaskScopes |->
                                [distribution |-> "EXPONENTIAL", m |-> 1]],
                               Infinity)

Init ==
    /\ InitCalendar
    /\ InitSystem
    /\ InitSimulation
    /\ InitGeneratorsIdle
    /\ InitTaskgenIdle

Next ==
    \/ NextCalendar
    \/ NextSystemRead
    \/ NextSimulation
    \/ NextGenerators
    \/ NextCheck
    \/ NextStreams
    \/ NextSchrage
    \/ NextSingle
    \/ NextTaskgen
    \/ NextStatistics

Spec == Init /\ [][Next]_vars

\* the calendar alone, beside a system nobody calls
InitCalendarAlone ==
    /\ InitGeneratorsIdle
    /\ InitTaskgenIdle
    /\ InitSimulation
    /\ t_stop = 1
    /\ t_sample = 1
    /\ InitCalendar
    /\ InitSystem
    /\ cloudlet.n_servers = 1
    /\ cloudlet.threshold = 1

SpecCalendar == InitCalendarAlone /\ [][NextCalendar]_vars

\* the system alone, beside a calendar nobody calls
InitSystemAlone ==
    /\ InitGeneratorsIdle
    /\ InitTaskgenIdle
    /\ InitSimulation
    /\ t_stop = 1
    /\ t_sample = 1
    /\ InitSystem
    /\ InitCalendar
    /\ stop = Infinity

SpecSystem == InitSystemAlone /\ [][NextSystem]_vars

\* the system alone, with one server in the Cloudlet and a caller that also
\* reads its derived metrics
InitSystemRead ==
    /\ InitGeneratorsIdle
    /\ InitTaskgenIdle
    /\ InitSimulation
    /\ t_stop = 1
    /\ t_sample = 1
    /\ InitSystem
    /\ cloudlet.n_servers = 1
    /\ cloudlet.threshold = 1
    /\ InitCalendar
    /\ stop = Infinity

SpecSystemRead == InitSystemRead /\ [][NextSystemRead]_vars

\* the system alone, with a caller that may submit unmatched completions
InitSystemAnyCaller ==
    /\ InitGeneratorsIdle
    /\ InitTaskgenIdle
    /\ InitSimulation
    /\ t_stop = 1
    /\ t_sample = 1
    /\ InitSystem
    /\ InitCalendar
    /\ stop = Infinity

SpecSystemAnyCaller == InitSystemAnyCaller /\ [][NextSystemAnyCaller]_vars

\* a simulation run: the calendar of the simulation is built with the
\* default stop time and no arrival types (line 89)
InitRun ==
    /\ InitGeneratorsIdle
    /\ InitTaskgenIdle
    /\ InitSimulation
    /\ InitCalendar
    /\ stop = Infinity
    /\ InitSystem

SpecSimulation == InitRun /\ [][NextSimulation]_vars

\* the run goes on as long as it has a statement to execute
SpecSimulationFair == SpecSimulation /\ WF_vars(NextSimulation)

\* a simulation run in either mode
InitRunAnyMode ==
    /\ InitGeneratorsIdle
    /\ InitTaskgenIdle
    /\ InitSimulation \/ InitSimulationPerformance
    /\ InitCalendar
    /\ stop = Infinity
    /\ InitSystem

SpecSimulationAnyMode == InitRunAnyMode /\ [][NextSimulation]_vars

\* the other components, beside the generators
InitIdle ==
    /\ InitCalendar
    /\ stop = Infinity
    /\ InitSystem
    /\ cloudlet.n_servers = 1
    /\ cloudlet.threshold = 1
    /\ InitSimulation
    /\ t_stop = 1
    /\ t_sample = 1

\* two small multi-stream generators and their callers
InitGeneratorsSmall ==
    /\ InitIdle
    /\ InitTaskgenIdle
    /\ \E iseed \in 1..MaxSeed :
          InitGenerators(iseed, SmallModulus, SmallMultiplier, MaxStreams, SmallJumper)

SpecGenerators == InitGeneratorsSmall /\ [][NextGenerators]_vars

\* the check of rndgen.py: the default generators with the initial seed 1
InitCheck ==
    /\ InitIdle
    /\ InitTaskgenIdle
    /\ InitGenerators(1, DEFAULT_MODULUS, DEFAULT_MULTIPLIER, DEFAULT_STREAMS,
                      DEFAULT_JUMPER)

SpecCheck == InitCheck /\ [][NextCheck]_vars

\* one small multi-stream generator and its caller
InitStreams ==
    /\ InitIdle
    /\ InitTaskgenIdle
    /\ \E iseed \in 1..MaxSeed :
          InitGenerators(iseed, SmallModulus, SmallMultiplier, MaxStreams, SmallJumper)

SpecStreams == InitStreams /\ [][NextStreams]_vars

\* one small single-stream generator of any seed in (0, M) and its caller
InitSingle ==
    /\ InitIdle
    /\ InitTaskgenIdle
    /\ \E iseed \in 1..(SmallModulus - 1) :
          InitGenerators(iseed, SmallModulus, SmallMultiplier, MaxStreams, SmallJumper)

SpecSingle == InitSingle /\ [][NextSingle]_vars

\* a task generator yet to construct, over a generator of any seed in (0, M)
InitTaskgen ==
    /\ InitIdle
    /\ InitStatistics
    /\ taskgen = NoTaskgen
    /\ \E iseed \in 1..(SmallModulus - 1) :
          InitGenerators(iseed, SmallModulus, SmallMultiplier, MaxStreams, SmallJumper)

SpecTaskgen == InitTaskgen /\ [][NextTaskgen]_vars

\* a new group of statistics and its caller
InitStatisticsAlone ==
    /\ InitIdle
    /\ InitGeneratorsIdle
    /\ InitTaskgenIdle

SpecStatistics == InitStatisticsAlone /\ [][NextStatistics]_vars

\* the multipliers c of the modulus m with m mod c < floor(m / c)
Multipliers(m) == {c \in 2..(m - 1) : m % c < m \div c}

\* a generator of the 8-bit modulus with any seed in (0, M), and either any
\* such multiplier beside the jumper of the table or any such jumper beside
\* the multiplier of the table
InitSchrage ==
    /\ InitIdle
    /\ InitTaskgenIdle
    /\ \E iseed \in 1..(SmallModulus - 1) :
       \E c \in Multipliers(SmallModulus), g \in Multipliers(SmallModulus) :
          /\ c = SmallMultiplier \/ g = SmallJumper
          /\ InitGenerators(iseed, SmallModulus, c, MaxStreams, g)

SpecSchrage == InitSchrage /\ [][NextSchrage]_vars

=============================================================================
